---- MODULE Spec2Model ----
(***************************************************************************)
(* A model of mindmatrix:                                                  *)
(*   - the MindMatrix registry (four ordered tables of registrations and   *)
(*     their linear-scan lookups),                                         *)
(*   - the AgentProvider dispatch callable and the async task runner,      *)
(*   - the context store (three contextvars slots read and written by      *)
(*     logical requests, and by the tasks they spawn, interleaved on one   *)
(*     event loop),                                                        *)
(*   - an agent run and the memory update it detaches,                     *)
(*   - the streaming generators of the OpenAI-style and SSE adapters,      *)
(*   - an HTTP request's way through the API router, the memory routes     *)
(*     included,                                                           *)
(*   - the accessors of an agent's workflow handle,                        *)
(*   - the HTTP client wrappers and the reranker clients,                  *)
(*   - plugin loading and enable_plugins,                                  *)
(*   - the FastAPI apps of the orchestrators of one process.               *)
(* The repository holds two snapshots of the package: the current one      *)
(* (src/src/mindmatrix) and an earlier one (src/mindmatrix).  Where the    *)
(* two differ both are modelled, and `variant` says which one runs.        *)
(***************************************************************************)
EXTENDS Integers, Sequences, FiniteSets, TLC

VARIABLES
    variant,             \* which snapshot of the package is running
    agent_factories,     \* MindMatrix._agent_factories
    workflow_factories,  \* MindMatrix._workflow_factories
    vectordbs,           \* MindMatrix._vectordbs
    tasks,               \* MindMatrix._tasks
    last,                \* observable outcome of the most recent call
    ctx,                 \* context store: task -> (slot -> value)
    status,              \* task -> "idle" | "ready" | "running"
    own,                 \* task -> (slot -> value the task itself last set)
    born,                \* task -> the context its creator was running in
    seen,                \* the most recent read of a slot
    run,                 \* one agent run and its detached memory update
    stream,              \* one streaming response and its client
    web,                 \* one HTTP request to the API router
    memories,            \* ids of the user memories the memory object stores
    handle,              \* latest access to the workflow handle of a request
    calls,               \* latest call made through each HTTP client wrapper
    reranked,            \* outcome of the latest rerank of each reranker client
    plugins,             \* the module-level _plugins list and the loads made for it
    plugins_enabled,     \* orchestrator -> its _plugins_enabled flag
    invoked,              \* orchestrator -> plugin -> register_plugin calls and outcome
    apps,                \* orchestrator -> its _app (0: None, else the id of the FastAPI object)
    router,              \* the module-level APIRouter and the providers stored on it
    served               \* the latest read of .app or request served by an app

regvars == <<variant, agent_factories, workflow_factories, vectordbs, tasks, last>>
ctxvars == <<ctx, status, own, born, seen>>
runvars == <<run>>
streamvars == <<stream>>
webvars == <<web, memories>>
clientvars == <<calls, reranked>>
handlevars == <<handle>>
pluginvars == <<plugins, plugins_enabled, invoked>>
appvars == <<apps, router, served>>
vars == <<regvars, ctxvars, runvars, streamvars, webvars, clientvars, handlevars, pluginvars, appvars>>

\* what a call on the registry, a step of a task, a step of an agent run,
\* a step of a streaming response, a step of an HTTP request, a call
\* through an HTTP client, an access to the workflow handle, a call of
\* enable_plugins and a use of an orchestrator's app leave alone
nonregvars == <<ctxvars, runvars, streamvars, webvars, clientvars, handlevars, pluginvars, appvars>>
nonctxvars == <<regvars, runvars, streamvars, webvars, clientvars, handlevars, pluginvars, appvars>>
nonrunvars == <<regvars, ctxvars, streamvars, webvars, clientvars, handlevars, pluginvars, appvars>>
nonstreamvars == <<regvars, ctxvars, runvars, webvars, clientvars, handlevars, pluginvars, appvars>>
nonwebvars == <<regvars, ctxvars, runvars, streamvars, clientvars, handlevars, pluginvars, appvars>>
nonclientvars == <<regvars, ctxvars, runvars, streamvars, webvars, handlevars, pluginvars, appvars>>
nonhandlevars == <<regvars, ctxvars, runvars, streamvars, webvars, clientvars, pluginvars, appvars>>
nonctxhandlevars == <<regvars, runvars, streamvars, webvars, clientvars, pluginvars, appvars>>
nonpluginvars == <<regvars, ctxvars, runvars, streamvars, webvars, clientvars, handlevars, appvars>>
nonregpluginvars == <<ctxvars, runvars, streamvars, webvars, clientvars, handlevars, appvars>>
nonappvars == <<regvars, ctxvars, runvars, streamvars, webvars, clientvars, handlevars, pluginvars>>

(***************************************************************************)
(* Bounds and input sets                                                   *)
(***************************************************************************)
MaxRecords == 2          \* registrations held by one orchestrator, all tables
MaxEvents == 2           \* events the agent or workflow delivers to one stream
MaxArtifacts == 2        \* artifacts carried by one workflow content event

Variants == {"current", "earlier"}
Names == {"a", "b"}
BuiltinTask == "embed_documents"
Factories == {"f1", "f2"}
Handles == {"h1", "h2"}

EmptyCfg == [k \in {} |-> 0]
\* configs given at registration (values 1) and keyword overrides (values 2)
RegConfigs == {EmptyCfg, [k \in {"k1"} |-> 1]}
Overrides == {EmptyCfg, [k \in {"k1"} |-> 2], [k \in {"k2"} |-> 2]}
Kinds == {"agent", "workflow", "bogus"}
\* keyword arguments a caller gives to the task runner
TaskKwargs == {EmptyCfg, [k \in {"vectordb_provider"} |-> 2]}

(***************************************************************************)
(* Registration records                                                    *)
(***************************************************************************)
VectorDbRegistration(name, vector_db) == [name |-> name, vector_db |-> vector_db]

AgentRegistration(name, agent_factory, agent_config) ==
    [name |-> name, agent_factory |-> agent_factory, agent_config |-> agent_config]

WorkflowRegistration(name, workflow_factory, workflow_config) ==
    [name |-> name, workflow_factory |-> workflow_factory, workflow_config |-> workflow_config]

TaskRegistration(name, task) == [name |-> name, task |-> task]

TotalRecords ==
    Len(agent_factories) + Len(workflow_factories) + Len(vectordbs) + Len(tasks)

(***************************************************************************)
(* Outcomes of a call: what it returned or raised, whether it logged a     *)
(* warning, and the factory invocation it made (if any).                   *)
(***************************************************************************)
NoOutcome ==
    [op |-> "none", name |-> "none", type_ |-> "none", kwargs |-> EmptyCfg,
     warned |-> FALSE, exc |-> "none", exc_domain |-> "none", exc_name |-> "none",
     invoked |-> FALSE, factory |-> "none", owner |-> FALSE, passed |-> EmptyCfg,
     ret |-> "none", args |-> <<>>, passed_args |-> <<>>, injected |-> {}, used |-> "none"]

Returned(op, name, kwargs, value) ==
    [NoOutcome EXCEPT !.op = op, !.name = name, !.kwargs = kwargs, !.ret = value]

Raised(op, name, kwargs, exc, exc_domain, exc_name) ==
    [NoOutcome EXCEPT !.op = op, !.name = name, !.kwargs = kwargs,
                      !.exc = exc, !.exc_domain = exc_domain, !.exc_name = exc_name]

\* a call that forgets **config
CallFactoryWithoutConfig(op, name, kwargs, factory, owner, config, extra) ==
    [NoOutcome EXCEPT !.op = op, !.name = name, !.kwargs = kwargs,
                      !.invoked = TRUE, !.factory = factory, !.owner = owner,
                      !.passed = extra, !.ret = "instance"]

\* factory(self, **config, **kwargs) / factory(**config, **kwargs):
\* a keyword given twice is a TypeError raised before the factory is entered.
CallFactory(op, name, kwargs, factory, owner, config, extra) ==
    IF DOMAIN config \cap DOMAIN extra # {}
    THEN Raised(op, name, kwargs, "TypeError", "none", "none")
    ELSE [NoOutcome EXCEPT !.op = op, !.name = name, !.kwargs = kwargs,
                           !.invoked = TRUE, !.factory = factory, !.owner = owner,
                           !.passed = config @@ extra, !.ret = "instance"]

(***************************************************************************)
(* Lookups: `for registration in table: if registration.name == name`      *)
(***************************************************************************)
RECURSIVE ScanFrom(_, _, _)
ScanFrom(table, i, name) ==
    IF i > Len(table) THEN 0
    ELSE IF table[i].name = name THEN i
    ELSE ScanFrom(table, i + 1, name)

\* a lookup in which a later registration shadows an earlier one
LastMatch(table, name) ==
    IF \E i \in DOMAIN table : table[i].name = name
    THEN CHOOSE i \in DOMAIN table :
             /\ table[i].name = name
             /\ \A j \in DOMAIN table : table[j].name = name => j <= i
    ELSE 0

\* index of the record the loop returns from, 0 when the loop runs out
FirstMatch(table, name) == ScanFrom(table, 1, name)

has_vectordb(vectordb_name) ==
    \E i \in DOMAIN vectordbs : vectordbs[i].name = vectordb_name

has_agent(agent_name) ==
    \E i \in DOMAIN agent_factories : agent_factories[i].name = agent_name

has_workflow(workflow_name) ==
    \E i \in DOMAIN workflow_factories : workflow_factories[i].name = workflow_name

\* a lookup that treats the stored handle as a factory and calls it
get_vectordb_called(vectordb_name) ==
    LET i == FirstMatch(vectordbs, vectordb_name) IN
    IF i # 0
    THEN [NoOutcome EXCEPT !.op = "get_vectordb", !.name = vectordb_name,
                           !.invoked = TRUE, !.factory = vectordbs[i].vector_db,
                           !.ret = "instance"]
    ELSE Raised("get_vectordb", vectordb_name, EmptyCfg,
                "ValueError", "Vector database", vectordb_name)

\* After the loop `registration` is the last record scanned; on an empty
\* table it was never bound and reading it raises UnboundLocalError.
get_vectordb(vectordb_name) ==
    LET i == FirstMatch(vectordbs, vectordb_name) IN
    IF i # 0 THEN Returned("get_vectordb", vectordb_name, EmptyCfg, vectordbs[i].vector_db)
    ELSE IF Len(vectordbs) = 0
    THEN Raised("get_vectordb", vectordb_name, EmptyCfg,
                "UnboundLocalError", "none", "registration")
    ELSE Raised("get_vectordb", vectordb_name, EmptyCfg,
                "ValueError", "Vector database", vectordbs[Len(vectordbs)].name)

get_agent(agent_name, kwargs) ==
    LET i == FirstMatch(agent_factories, agent_name) IN
    IF i # 0
    THEN CallFactory("get_agent", agent_name, kwargs, agent_factories[i].agent_factory,
                     TRUE, agent_factories[i].agent_config, kwargs)
    ELSE Raised("get_agent", agent_name, kwargs, "ValueError", "Agent factory", agent_name)

get_workflow(workflow_name, kwargs) ==
    LET i == FirstMatch(workflow_factories, workflow_name) IN
    IF i # 0
    THEN CallFactory("get_workflow", workflow_name, kwargs,
                     workflow_factories[i].workflow_factory,
                     TRUE, workflow_factories[i].workflow_config, kwargs)
    ELSE Raised("get_workflow", workflow_name, kwargs,
                "ValueError", "Workflow factory", workflow_name)

get_task(task_name) ==
    LET i == FirstMatch(tasks, task_name) IN
    IF i # 0 THEN Returned("get_task", task_name, EmptyCfg, tasks[i].task)
    ELSE Raised("get_task", task_name, EmptyCfg, "ValueError", "Task", task_name)

\* The earlier snapshot: factories are called without the orchestrator, and
\* get_workflow accepts **kwargs but does not pass them on.
get_agent_earlier(agent_name, kwargs) ==
    LET i == FirstMatch(agent_factories, agent_name) IN
    IF i # 0
    THEN CallFactory("get_agent", agent_name, kwargs, agent_factories[i].agent_factory,
                     FALSE, agent_factories[i].agent_config, kwargs)
    ELSE Raised("get_agent", agent_name, kwargs, "ValueError", "Agent factory", agent_name)

get_workflow_earlier(workflow_name, kwargs) ==
    LET i == FirstMatch(workflow_factories, workflow_name) IN
    IF i # 0
    THEN CallFactory("get_workflow", workflow_name, kwargs,
                     workflow_factories[i].workflow_factory,
                     FALSE, workflow_factories[i].workflow_config, EmptyCfg)
    ELSE Raised("get_workflow", workflow_name, kwargs,
                "ValueError", "Workflow factory", workflow_name)

\* self.mindmatrix.get_agent / get_workflow of the running snapshot
mindmatrix_get_agent(agent_name, kwargs) ==
    IF variant = "current" THEN get_agent(agent_name, kwargs)
    ELSE get_agent_earlier(agent_name, kwargs)

mindmatrix_get_workflow(workflow_name, kwargs) ==
    IF variant = "current" THEN get_workflow(workflow_name, kwargs)
    ELSE get_workflow_earlier(workflow_name, kwargs)

(***************************************************************************)
(* AgentProvider.__call__(agent_name, type_, **kwargs)                     *)
(***************************************************************************)
\* a dispatch that treats every kind other than "workflow" as "agent"
AgentProviderDefaultingToAgent(agent_name, type_, kwargs) ==
    IF type_ = "workflow"
    THEN [mindmatrix_get_workflow(agent_name, kwargs) EXCEPT !.op = "AgentProvider", !.type_ = type_]
    ELSE [mindmatrix_get_agent(agent_name, kwargs) EXCEPT !.op = "AgentProvider", !.type_ = type_]

AgentProvider(agent_name, type_, kwargs) ==
    IF type_ = "agent"
    THEN [mindmatrix_get_agent(agent_name, kwargs) EXCEPT !.op = "AgentProvider", !.type_ = type_]
    ELSE IF type_ = "workflow"
    THEN [mindmatrix_get_workflow(agent_name, kwargs) EXCEPT !.op = "AgentProvider", !.type_ = type_]
    ELSE [Raised("AgentProvider", agent_name, kwargs, "ValueError", "Invalid type", type_)
             EXCEPT !.type_ = type_]

(***************************************************************************)
(* MindMatrix.async_run_task(task_name, *args, **kwargs)                   *)
(***************************************************************************)
\* inspect.signature(task.fn).parameters of the functions registered as
\* tasks: the built-in embed_documents, and two functions taking **kwargs
signature(fn) ==
    CASE fn = BuiltinTask ->
             {"vectordb_name", "collection_name", "documents", "vectordb_provider"}
      [] fn = "h1" -> {"agent_provider", "kwargs"}
      [] fn = "h2" -> {"args", "kwargs"}
      [] OTHER -> {}

\* a runner that hands both accessors to every task
inject_always(v, sig) == {"vectordb_provider", "agent_provider"}

\* the accessors the runner adds to kwargs: the current snapshot tests the
\* signature for both names, the earlier one only for vectordb_provider
inject(v, sig) ==
    {p \in {"vectordb_provider"} : p \in sig}
        \cup (IF v = "current" THEN {p \in {"agent_provider"} : p \in sig} ELSE {})

\* VectorDbProvider(self).__call__(vectordb_name)
VectorDbProvider(vectordb_name) == get_vectordb(vectordb_name)

\* task.fn(*args, **kwargs) for the built-in task: it takes no keyword other
\* than vectordb_provider, and resolves args[1] through the accessor
embed_documents(out) ==
    IF DOMAIN out.passed # {} THEN [out EXCEPT !.exc = "TypeError"]
    ELSE IF "vectordb_provider" \notin out.injected THEN [out EXCEPT !.exc = "TypeError"]
    ELSE LET v == VectorDbProvider(out.passed_args[1]) IN
         IF v.exc # "none"
         THEN [out EXCEPT !.exc = v.exc, !.exc_domain = v.exc_domain, !.exc_name = v.exc_name]
         ELSE [out EXCEPT !.used = v.ret, !.ret = "None"]

async_run_task(task_name, args, kwargs) ==
    LET task == get_task(task_name) IN
    IF task.exc # "none"
    THEN [task EXCEPT !.op = "async_run_task", !.args = args, !.kwargs = kwargs]
    ELSE LET added == inject(variant, signature(task.ret))
             out == [NoOutcome EXCEPT
                        !.op = "async_run_task", !.name = task_name,
                        !.args = args, !.kwargs = kwargs,
                        !.invoked = TRUE, !.factory = task.ret,
                        !.passed_args = args,
                        !.passed = [k \in DOMAIN kwargs \ added |-> kwargs[k]],
                        !.injected = added]
         IN IF task.ret = BuiltinTask THEN embed_documents(out)
            ELSE [out EXCEPT !.ret = "result"]

(***************************************************************************)
(* Registration.  Every register_* appends one record; the current         *)
(* snapshot's register_vectordb / register_agent_factory /                 *)
(* register_workflow_factory first log a warning when has_*(name).         *)
(***************************************************************************)
tables == <<agent_factories, workflow_factories, vectordbs, tasks>>

Registered(op, name, warned) ==
    [NoOutcome EXCEPT !.op = op, !.name = name, !.warned = warned]

register_vectordb(vectordb_name, vectordb) ==
    /\ variant = "current"
    /\ TotalRecords < MaxRecords
    /\ last' = Registered("register_vectordb", vectordb_name, has_vectordb(vectordb_name))
    /\ vectordbs' = Append(vectordbs, VectorDbRegistration(vectordb_name, vectordb))
    /\ UNCHANGED <<variant, agent_factories, workflow_factories, tasks>>
    /\ UNCHANGED nonregvars

register_agent_factory(agent_name, agent_factory, agent_config) ==
    /\ variant = "current"
    /\ TotalRecords < MaxRecords
    /\ last' = Registered("register_agent_factory", agent_name, has_agent(agent_name))
    /\ agent_factories' =
           Append(agent_factories, AgentRegistration(agent_name, agent_factory, agent_config))
    /\ UNCHANGED <<variant, workflow_factories, vectordbs, tasks>>
    /\ UNCHANGED nonregvars

\* config_given = FALSE is the call that leaves workflow_config at its
\* default None, which is replaced by {} before the record is built.
register_workflow_factory(workflow_name, workflow_factory, config_given, workflow_config) ==
    /\ variant = "current"
    /\ TotalRecords < MaxRecords
    /\ last' = Registered("register_workflow_factory", workflow_name, has_workflow(workflow_name))
    /\ workflow_factories' =
           Append(workflow_factories,
                  WorkflowRegistration(workflow_name, workflow_factory,
                                       IF config_given THEN workflow_config ELSE EmptyCfg))
    /\ UNCHANGED <<variant, agent_factories, vectordbs, tasks>>
    /\ UNCHANGED nonregvars

\* a registration that rebinds a name already in the table
register_task_replacing(task_name, task) ==
    /\ TotalRecords < MaxRecords
    /\ last' = Registered("register_task", task_name, FALSE)
    /\ tasks' = IF FirstMatch(tasks, task_name) # 0
                 THEN [tasks EXCEPT ![FirstMatch(tasks, task_name)] =
                          TaskRegistration(task_name, task)]
                 ELSE Append(tasks, TaskRegistration(task_name, task))
    /\ UNCHANGED <<variant, agent_factories, workflow_factories, vectordbs>>
    /\ UNCHANGED nonregvars

\* register_task is the same in both snapshots: no has-check, no warning.
register_task(task_name, task) ==
    /\ TotalRecords < MaxRecords
    /\ last' = Registered("register_task", task_name, FALSE)
    /\ tasks' = Append(tasks, TaskRegistration(task_name, task))
    /\ UNCHANGED <<variant, agent_factories, workflow_factories, vectordbs>>
    /\ UNCHANGED nonregvars

\* The earlier snapshot registers without any duplicate check.
register_vectordb_earlier(vectordb_name, vectordb) ==
    /\ variant = "earlier"
    /\ TotalRecords < MaxRecords
    /\ last' = Registered("register_vectordb", vectordb_name, FALSE)
    /\ vectordbs' = Append(vectordbs, VectorDbRegistration(vectordb_name, vectordb))
    /\ UNCHANGED <<variant, agent_factories, workflow_factories, tasks>>
    /\ UNCHANGED nonregvars

register_agent_factory_earlier(agent_name, agent_factory, agent_config) ==
    /\ variant = "earlier"
    /\ TotalRecords < MaxRecords
    /\ last' = Registered("register_agent_factory", agent_name, FALSE)
    /\ agent_factories' =
           Append(agent_factories, AgentRegistration(agent_name, agent_factory, agent_config))
    /\ UNCHANGED <<variant, workflow_factories, vectordbs, tasks>>
    /\ UNCHANGED nonregvars

register_workflow_factory_earlier(workflow_name, workflow_factory, config_given, workflow_config) ==
    /\ variant = "earlier"
    /\ TotalRecords < MaxRecords
    /\ last' = Registered("register_workflow_factory", workflow_name, FALSE)
    /\ workflow_factories' =
           Append(workflow_factories,
                  WorkflowRegistration(workflow_name, workflow_factory,
                                       IF config_given THEN workflow_config ELSE EmptyCfg))
    /\ UNCHANGED <<variant, agent_factories, vectordbs, tasks>>
    /\ UNCHANGED nonregvars

(***************************************************************************)
(* Calls that only read the tables                                         *)
(***************************************************************************)
Bool(b) == IF b THEN "True" ELSE "False"

HasVectorDb(n) ==
    /\ variant = "current"
    /\ last' = Returned("has_vectordb", n, EmptyCfg, Bool(has_vectordb(n)))
    /\ UNCHANGED <<variant, tables>>
    /\ UNCHANGED nonregvars

HasAgent(n) ==
    /\ variant = "current"
    /\ last' = Returned("has_agent", n, EmptyCfg, Bool(has_agent(n)))
    /\ UNCHANGED <<variant, tables>>
    /\ UNCHANGED nonregvars

HasWorkflow(n) ==
    /\ variant = "current"
    /\ last' = Returned("has_workflow", n, EmptyCfg, Bool(has_workflow(n)))
    /\ UNCHANGED <<variant, tables>>
    /\ UNCHANGED nonregvars

ResolveVectorDb(n) ==
    /\ last' = get_vectordb(n)
    /\ UNCHANGED <<variant, tables>>
    /\ UNCHANGED nonregvars

ResolveTask(n) ==
    /\ last' = get_task(n)
    /\ UNCHANGED <<variant, tables>>
    /\ UNCHANGED nonregvars

ResolveAgent(n, kwargs) ==
    /\ last' = mindmatrix_get_agent(n, kwargs)
    /\ UNCHANGED <<variant, tables>>
    /\ UNCHANGED nonregvars

ResolveWorkflow(n, kwargs) ==
    /\ last' = mindmatrix_get_workflow(n, kwargs)
    /\ UNCHANGED <<variant, tables>>
    /\ UNCHANGED nonregvars

Provide(n, type_, kwargs) ==
    /\ last' = AgentProvider(n, type_, kwargs)
    /\ UNCHANGED <<variant, tables>>
    /\ UNCHANGED nonregvars

RunTask(n, args, kwargs) ==
    /\ last' = async_run_task(n, args, kwargs)
    /\ UNCHANGED <<variant, tables>>
    /\ UNCHANGED nonregvars

(***************************************************************************)
(* MindMatrix.__init__: empty tables, then enable_builtins() unless it was *)
(* switched off, which registers the embed_documents task.                 *)
(***************************************************************************)
enable_builtins == <<TaskRegistration(BuiltinTask, BuiltinTask)>>

InitRegistry ==
    /\ variant \in Variants
    /\ agent_factories = <<>>
    /\ workflow_factories = <<>>
    /\ vectordbs = <<>>
    /\ \E builtins \in BOOLEAN : tasks = IF builtins THEN enable_builtins ELSE <<>>
    /\ last = NoOutcome

(***************************************************************************)
(* Plugins.  The entry points of group "mindmatrix.plugin" are loaded into *)
(* the module-level list _plugins; enable_plugins calls register_plugin of *)
(* every loaded plugin on the orchestrator.  "M1" is the orchestrator      *)
(* whose tables the registry variables hold, "M2" another orchestrator of  *)
(* the same process.                                                       *)
(***************************************************************************)
Instances == {"M1", "M2"}
EntryPoints == <<"p1", "p2">>
PluginNames == {EntryPoints[i] : i \in DOMAIN EntryPoints}
\* entry_point.load(): returns the plugin or raises
LoadOutcomes == [PluginNames -> BOOLEAN]
\* plugin.register_plugin(self, **kwargs): registers all it has, raises
\* before registering anything, or raises after its first registration
RegisterOutcomes == [PluginNames -> {"ok", "raises", "partial"}]

\* _plugins = None: not loaded yet
NoPlugins == [loaded |-> FALSE, list |-> <<>>, loads |-> [p \in PluginNames |-> 0]]

\* a loader without the early exit: it loads the entry points on every call
load_plugins_every_call(pl, ok) ==
    [loaded |-> TRUE,
     list |-> SelectSeq(EntryPoints, LAMBDA p : ok[p]),
     loads |-> [p \in PluginNames |-> pl.loads[p] + 1]]

\* _load_plugins(): returns the list if it was loaded before; otherwise
\* loads every entry point, skipping those whose load raises
load_plugins(pl, ok) ==
    IF pl.loaded THEN pl
    ELSE [loaded |-> TRUE,
          list |-> SelectSeq(EntryPoints, LAMBDA p : ok[p]),
          loads |-> [p \in PluginNames |-> pl.loads[p] + 1]]

\* what the plugins register on an orchestrator: p1 an agent factory and
\* then a workflow factory, p2 a task and then a vector database
RegistersIn(table, p, how) ==
    CASE how = "raises" -> <<>>
      [] table = "agent_factories" /\ p = "p1" -> <<AgentRegistration("a", "f1", EmptyCfg)>>
      [] table = "workflow_factories" /\ p = "p1" /\ how = "ok" ->
             <<WorkflowRegistration("a", "f1", EmptyCfg)>>
      [] table = "tasks" /\ p = "p2" -> <<TaskRegistration("b", "h1")>>
      [] table = "vectordbs" /\ p = "p2" /\ how = "ok" -> <<VectorDbRegistration("b", "h1")>>
      [] OTHER -> <<>>

RECURSIVE RegisteredBy(_, _, _, _)
RegisteredBy(table, list, how, n) ==
    IF n = 0 THEN <<>>
    ELSE RegisteredBy(table, list, how, n - 1) \o RegistersIn(table, list[n], how[list[n]])

NoInvocation == [p \in PluginNames |-> [calls |-> 0, outcome |-> "none"]]

\* MindMatrix.enable_plugins(**kwargs) on orchestrator m
enable_plugins(m, ok, how) ==
    IF ~plugins_enabled[m]
    THEN LET pl == load_plugins(plugins, ok)
             n == Len(pl.list)
             on == {pl.list[i] : i \in 1..n}
         IN /\ plugins' = pl
            /\ invoked' = [invoked EXCEPT ![m] =
                              [p \in PluginNames |->
                                  IF p \in on
                                  THEN [calls |-> invoked[m][p].calls + 1, outcome |-> how[p]]
                                  ELSE invoked[m][p]]]
            /\ plugins_enabled' = [plugins_enabled EXCEPT ![m] = TRUE]
            /\ IF m = "M1"
               THEN /\ agent_factories' =
                           agent_factories \o RegisteredBy("agent_factories", pl.list, how, n)
                    /\ workflow_factories' =
                           workflow_factories \o RegisteredBy("workflow_factories", pl.list, how, n)
                    /\ vectordbs' = vectordbs \o RegisteredBy("vectordbs", pl.list, how, n)
                    /\ tasks' = tasks \o RegisteredBy("tasks", pl.list, how, n)
               ELSE UNCHANGED tables
            /\ last' = Registered("enable_plugins", m, FALSE)
    ELSE /\ last' = Registered("enable_plugins", m, TRUE)
         /\ UNCHANGED <<plugins, invoked, plugins_enabled, tables>>

EnablePlugins(m, ok, how) ==
    /\ enable_plugins(m, ok, how)
    /\ UNCHANGED variant
    /\ UNCHANGED nonregpluginvars

InitPlugins ==
    /\ plugins = NoPlugins
    /\ plugins_enabled = [m \in Instances |-> FALSE]
    /\ invoked = [m \in Instances |-> NoInvocation]

(***************************************************************************)
(* The FastAPI app of an orchestrator.  MindMatrix.app builds it on first  *)
(* read with create_app, which stores the two providers on the router of   *)
(* web/_endpoints.py; the route functions read them from that router when  *)
(* a request is served.                                                    *)
(***************************************************************************)
\* router = APIRouter(prefix='/mm/v1'): no provider stored yet
NoRouter == [agent_provider |-> "None", memory_provider |-> "None"]

NoService ==
    [op |-> "none", instance |-> "none", app |-> 0, endpoint |-> "none",
     resolved |-> "none"]

\* create_app(agent_provider=AgentProvider(m), memory_provider=MemoryProvider(m))
create_app(rt, m) == [rt EXCEPT !.agent_provider = m, !.memory_provider = m]

\* the orchestrator whose registry or memory a route function reaches:
\* router.agent_provider(...) on the chat routes, router.memory_provider()
\* on the memory routes
resolves_against(rt, endpoint) ==
    IF endpoint \in {"chat_completions", "workflow_chat_completions", "sse_chat_completions"}
    THEN rt.agent_provider
    ELSE rt.memory_provider

\* MindMatrix.app: built on the first read, kept in self._app
GetApp(m) ==
    /\ apps' = IF apps[m] = 0
               THEN [apps EXCEPT ![m] = Cardinality({i \in DOMAIN apps : apps[i] # 0}) + 1]
               ELSE apps
    /\ router' = IF apps[m] = 0 THEN create_app(router, m) ELSE router
    /\ served' = [NoService EXCEPT !.op = "app", !.instance = m, !.app = apps'[m]]
    /\ UNCHANGED nonappvars

\* a request arrives at the app of orchestrator m and reaches a route
ServeRequest(m, endpoint) ==
    /\ apps[m] # 0
    /\ served' = [NoService EXCEPT !.op = "request", !.instance = m, !.app = apps[m],
                                   !.endpoint = endpoint,
                                   !.resolved = resolves_against(router, endpoint)]
    /\ UNCHANGED <<apps, router>>
    /\ UNCHANGED nonappvars

InitApps ==
    /\ apps = [m \in Instances |-> 0]
    /\ router = NoRouter
    /\ served = NoService

(***************************************************************************)
(* Context store.  Three ContextVar slots, default None.  A ContextVar     *)
(* reads and writes the context of the task that is running; every logical *)
(* request is served by its own task, whose context is a copy of the       *)
(* server's context taken when the task is created.                        *)
(***************************************************************************)
Requests == {"R1", "R2"}
\* tasks a request spawns: the detached memory update (asyncio.create_task)
\* and the task that iterates the request's streaming generator
Children == {"bg", "gen"}
AsyncTasks == Requests \cup Children
Slots == {"session_id", "jwt_token", "workflow"}
SlotValues == {"A", "B"}

session_id_var == "None"
jwt_token_var == "None"
workflow_var == "None"

\* the context a new request task starts with: no slot was ever set in it
NewContext ==
    [s \in Slots |-> CASE s = "session_id" -> session_id_var
                       [] s = "jwt_token" -> jwt_token_var
                       [] s = "workflow" -> workflow_var]

Unset == [s \in Slots |-> "unset"]
NoRead == [task |-> "none", slot |-> "none", value |-> "none"]

\* a slot kept in one module-level variable shared by all requests
get_shared_session_id(store, t) ==
    LET writers == {r \in DOMAIN store : store[r].session_id # session_id_var} IN
    IF writers = {} THEN session_id_var
    ELSE store[CHOOSE r \in writers : TRUE].session_id

set_shared_session_id(store, t, session_id) ==
    [r \in DOMAIN store |-> [store[r] EXCEPT !.session_id = session_id]]

get_current_session_id(store, t) == store[t].session_id

set_current_session_id(store, t, session_id) ==
    [store EXCEPT ![t].session_id = session_id]

get_current_jwt_token(store, t) == store[t].jwt_token

set_current_jwt_token(store, t, token) ==
    [store EXCEPT ![t].jwt_token = token]

get_current_workflow(store, t) == store[t].workflow

set_current_workflow(store, t, workflow) ==
    [store EXCEPT ![t].workflow = workflow]

\* the single event loop runs at most one task at a time
Idle == \A t \in AsyncTasks : status[t] # "running"

\* A request arrives: its task is created and scheduled.
StartRequest(r) ==
    /\ status[r] = "idle"
    /\ status' = [status EXCEPT ![r] = "suspended"]
    /\ ctx' = [ctx EXCEPT ![r] = NewContext]
    /\ own' = [own EXCEPT ![r] = Unset]
    /\ born' = [born EXCEPT ![r] = NewContext]
    /\ seen' = NoRead
    /\ UNCHANGED nonctxvars

\* The loop resumes a suspended task in that task's context.
Resume(r) ==
    /\ Idle
    /\ status[r] = "suspended"
    /\ status' = [status EXCEPT ![r] = "running"]
    /\ seen' = NoRead
    /\ UNCHANGED <<ctx, own, born>>
    /\ UNCHANGED nonctxvars

\* The running task reaches an await and yields to the loop.
Suspend(r) ==
    /\ status[r] = "running"
    /\ status' = [status EXCEPT ![r] = "suspended"]
    /\ seen' = NoRead
    /\ UNCHANGED <<ctx, own, born>>
    /\ UNCHANGED nonctxvars

\* The request's handler returns; its task and context are gone.
Finish(r) ==
    /\ status[r] = "running"
    /\ status' = [status EXCEPT ![r] = "idle"]
    /\ seen' = NoRead
    /\ UNCHANGED <<ctx, own, born>>
    /\ UNCHANGED nonctxvars

SetSessionId(r, v) ==
    /\ status[r] = "running"
    /\ ctx' = set_current_session_id(ctx, r, v)
    /\ own' = [own EXCEPT ![r].session_id = v]
    /\ seen' = NoRead
    /\ UNCHANGED <<status, born>>
    /\ UNCHANGED nonctxvars

GetSessionId(r) ==
    /\ status[r] = "running"
    /\ seen' = [task |-> r, slot |-> "session_id", value |-> get_current_session_id(ctx, r)]
    /\ UNCHANGED <<ctx, status, own, born>>
    /\ UNCHANGED nonctxvars

SetJwtToken(r, v) ==
    /\ status[r] = "running"
    /\ ctx' = set_current_jwt_token(ctx, r, v)
    /\ own' = [own EXCEPT ![r].jwt_token = v]
    /\ seen' = NoRead
    /\ UNCHANGED <<status, born>>
    /\ UNCHANGED nonctxvars

GetJwtToken(r) ==
    /\ status[r] = "running"
    /\ seen' = [task |-> r, slot |-> "jwt_token", value |-> get_current_jwt_token(ctx, r)]
    /\ UNCHANGED <<ctx, status, own, born>>
    /\ UNCHANGED nonctxvars

SetWorkflow(r, v) ==
    /\ status[r] = "running"
    /\ ctx' = set_current_workflow(ctx, r, v)
    /\ own' = [own EXCEPT ![r].workflow = v]
    /\ seen' = NoRead
    /\ UNCHANGED <<status, born>>
    /\ UNCHANGED nonctxvars

GetWorkflow(r) ==
    /\ status[r] = "running"
    /\ seen' = [task |-> r, slot |-> "workflow", value |-> get_current_workflow(ctx, r)]
    /\ UNCHANGED <<ctx, status, own, born>>
    /\ UNCHANGED nonctxvars

\* a child task started in a fresh context instead of a copy
create_task_in_new_context(store, r, c) ==
    [store EXCEPT ![c] = NewContext]

\* asyncio.create_task(coro): the new task runs in a copy of the context of
\* the task that creates it, taken at creation.
create_task(store, r, c) ==
    [store EXCEPT ![c] = store[r]]

\* A running task spawns a child: the detached memory update of its agent
\* run, or the task that iterates its streaming generator.
SpawnChild(r, c) ==
    /\ status[r] = "running"
    /\ status[c] = "idle"
    /\ ctx' = create_task(ctx, r, c)
    /\ status' = [status EXCEPT ![c] = "suspended"]
    /\ own' = [own EXCEPT ![c] = Unset]
    /\ born' = [born EXCEPT ![c] = ctx[r]]
    /\ seen' = NoRead
    /\ UNCHANGED nonctxvars

(***************************************************************************)
(* The call sites that need the workflow handle: the orchestrator's        *)
(* current_workflow property and BaseAgent.custom_session_state (earlier   *)
(* snapshot).  `handle` holds the latest such access: the slot's value     *)
(* before and after it, what it returned and what it raised.               *)
(***************************************************************************)
\* an agent's workflow_id attribute; "none": the agent has no such attribute
WorkflowIds == SlotValues \cup {"none"}

NoAccess ==
    [op |-> "none", task |-> "none", agent |-> "none", arg |-> "none",
     before |-> "none", after |-> "none", value |-> "none", exc |-> "none",
     warned |-> FALSE]

\* custom_session_state: with a workflow_id the agent reads the handle and
\* evaluates workflow.workflow_id inside the assert; the result is
\* <<returned value, exception>>
custom_session_state(agent, workflow) ==
    IF agent = "none" THEN <<"self.session_state", "none">>
    ELSE IF workflow = "None" THEN <<"none", "AttributeError">>
    ELSE IF agent # workflow THEN <<"none", "AssertionError">>
    ELSE <<"workflow.session_state", "none">>

\* an agent running in request r reads custom_session_state
CustomSessionState(r, agent) ==
    /\ status[r] = "running"
    /\ LET workflow == get_current_workflow(ctx, r)
           res == custom_session_state(agent, workflow)
       IN handle' = [NoAccess EXCEPT !.op = "custom_session_state", !.task = r,
                                     !.agent = agent, !.before = workflow,
                                     !.after = workflow, !.value = res[1],
                                     !.exc = res[2]]
    /\ UNCHANGED nonhandlevars

\* MindMatrix.current_workflow (getter): warns when the slot is None
GetCurrentWorkflow(r) ==
    /\ status[r] = "running"
    /\ LET workflow == get_current_workflow(ctx, r)
       IN handle' = [NoAccess EXCEPT !.op = "current_workflow", !.task = r,
                                     !.before = workflow, !.after = workflow,
                                     !.value = workflow,
                                     !.warned = (workflow = "None")]
    /\ UNCHANGED nonhandlevars

\* MindMatrix.current_workflow (setter): asserts the value is not None
SetCurrentWorkflow(r, workflow) ==
    /\ status[r] = "running"
    /\ ctx' = IF workflow = "None" THEN ctx ELSE set_current_workflow(ctx, r, workflow)
    /\ own' = IF workflow = "None" THEN own ELSE [own EXCEPT ![r].workflow = workflow]
    /\ handle' = [NoAccess EXCEPT !.op = "current_workflow.setter", !.task = r,
                                  !.arg = workflow,
                                  !.before = get_current_workflow(ctx, r),
                                  !.after = get_current_workflow(ctx', r),
                                  !.exc = IF workflow = "None" THEN "AssertionError"
                                          ELSE "none"]
    /\ seen' = NoRead
    /\ UNCHANGED <<status, born>>
    /\ UNCHANGED nonctxhandlevars

InitHandle == handle = NoAccess

InitContext ==
    /\ ctx = [t \in AsyncTasks |-> NewContext]
    /\ status = [t \in AsyncTasks |-> "idle"]
    /\ own = [t \in AsyncTasks |-> Unset]
    /\ born = [t \in AsyncTasks |-> NewContext]
    /\ seen = NoRead

(***************************************************************************)
(* BaseAgent._arun and the memory update it detaches.  The run and the     *)
(* update are tasks of one event loop: the update can start only once the  *)
(* run is suspended at an await or has returned.                           *)
(***************************************************************************)
Responses == {"r1", "r2"}
UpdateOutcomes == {"ok", "Exception"}

\* `steps` is the numbered steps of _arun taken so far, `paused` whether a
\* tool call of the response is paused, `stored` who wrote the session to
\* storage
NoRun ==
    [pc |-> "idle", response |-> "none", ret |-> "none", exc |-> "none",
     update |-> "none", outcome |-> "none", logged |-> FALSE, unhandled |-> "none",
     steps |-> <<>>, paused |-> FALSE, stored |-> "none"]

\* a response path whose log step waits for the memory update to finish
awaits_update(r) ==
    IF r.pc = "log" /\ r.update \in {"pending", "running"} THEN {"update"} ELSE {}

\* the tasks the run's next step waits for: the task made by create_task is
\* never kept, awaited or gathered
awaits(r) == {}

\* an update whose exception leaves the task unhandled
aupdate_memory_unguarded(r, outcome) ==
    IF outcome = "ok"
    THEN [r EXCEPT !.update = "done", !.outcome = outcome]
    ELSE [r EXCEPT !.update = "failed", !.outcome = outcome, !.unhandled = outcome]

\* try: async for _ in self._aupdate_memory(...): pass
\* except Exception as e: logger.error(...)
aupdate_memory_background(r, outcome) ==
    IF outcome = "ok"
    THEN [r EXCEPT !.update = "done", !.outcome = outcome]
    ELSE [r EXCEPT !.update = "done", !.outcome = outcome, !.logged = TRUE]

\* arun enters _arun and awaits the reasoning step
StartRun ==
    /\ run.pc = "idle"
    /\ run' = [run EXCEPT !.pc = "model"]
    /\ UNCHANGED nonrunvars

\* await self.model.aresponse(...) raises: the run fails before it
\* detaches anything
ModelRaises ==
    /\ run.pc = "model"
    /\ run' = [run EXCEPT !.pc = "raised", !.exc = "Exception"]
    /\ UNCHANGED nonrunvars

\* a run that goes on to the memory update although a tool call is paused
ModelRespondsIgnoringPause(content, paused) ==
    /\ run.pc = "model"
    /\ run' = [run EXCEPT !.pc = "create_task", !.response = content,
                            !.paused = paused,
                            !.steps = Append(run.steps, "_add_run_to_memory")]
    /\ UNCHANGED nonrunvars

\* the model answers; _update_run_response and _add_run_to_memory follow.
\* With a paused tool call the run leaves through _handle_agent_run_paused.
ModelResponds(content, paused) ==
    /\ run.pc = "model"
    /\ run' = [run EXCEPT !.pc = IF paused THEN "paused" ELSE "create_task",
                            !.response = content, !.paused = paused,
                            !.steps = Append(run.steps, "_add_run_to_memory")]
    /\ UNCHANGED nonrunvars

\* return self._handle_agent_run_paused(...): a method of the agent
\* library's Agent class; it returns the run response, and whether it saves
\* the session itself is the library's choice
HandleAgentRunPaused(saves) ==
    /\ run.pc = "paused"
    /\ run' = [run EXCEPT !.pc = "returned", !.ret = run.response,
                            !.stored = IF saves THEN "_handle_agent_run_paused"
                                       ELSE run.stored]
    /\ UNCHANGED nonrunvars

\* asyncio.create_task(self._aupdate_memory_background(...))
CreateUpdateTask ==
    /\ run.pc = "create_task"
    /\ run' = [run EXCEPT !.pc = "metrics", !.update = "pending",
                            !.steps = Append(run.steps, "create_task")]
    /\ UNCHANGED nonrunvars

SetSessionMetrics ==
    /\ run.pc = "metrics"
    /\ awaits(run) = {}
    /\ run' = [run EXCEPT !.pc = "storage",
                            !.steps = Append(run.steps, "_set_session_metrics")]
    /\ UNCHANGED nonrunvars

\* write_to_storage and save_run_response_to_file
WriteToStorage ==
    /\ run.pc = "storage"
    /\ awaits(run) = {}
    /\ run' = [run EXCEPT !.pc = "log", !.stored = "_arun",
                            !.steps = Append(run.steps, "write_to_storage")]
    /\ UNCHANGED nonrunvars

\* await self._alog_agent_run(...): the only await after the detach
LogAgentRun ==
    /\ run.pc = "log"
    /\ awaits(run) = {}
    /\ run' = [run EXCEPT !.pc = "convert"]
    /\ UNCHANGED nonrunvars

\* _convert_response_to_structured_format(run_response); return run_response
ReturnResponse ==
    /\ run.pc = "convert"
    /\ awaits(run) = {}
    /\ run' = [run EXCEPT !.pc = "returned", !.ret = run.response]
    /\ UNCHANGED nonrunvars

\* the loop starts the detached task while the run is suspended or over
BeginUpdate ==
    /\ run.update = "pending"
    /\ run.pc \in {"log", "returned"}
    /\ run' = [run EXCEPT !.update = "running"]
    /\ UNCHANGED nonrunvars

\* the update finishes, normally or by raising
EndUpdate(outcome) ==
    /\ run.update = "running"
    /\ run.pc \in {"log", "returned"}
    /\ run' = aupdate_memory_background(run, outcome)
    /\ UNCHANGED nonrunvars

InitRun == run = NoRun

(***************************************************************************)
(* Streaming responses: the two OpenAI-style generators of OpenAIAdapter   *)
(* and the two branches of SSEAdapter.handle_chat_request.  `out` is what  *)
(* the generator has yielded so far.                                       *)
(***************************************************************************)
OpenAIHandlers == {"stream_response", "stream_workflow_response"}
SSEHandlers == {"sse_agent", "sse_workflow"}
StreamHandlers == OpenAIHandlers \cup SSEHandlers

\* what the agent or workflow delivers: a content event or another event,
\* its content empty or not, whether its extra_data has the key
\* "artifacts", and how many artifacts are listed under it
SourceEvents ==
    {e \in [kind : {"content", "other"}, nonempty : BOOLEAN,
            has_artifacts : BOOLEAN, artifacts : 0..MaxArtifacts] :
        e.artifacts > 0 => e.has_artifacts}

\* `source` is the events delivered so far, `out` the kinds of the chunks
\* yielded, `sent` the SSE events and the OpenAI-style content chunks
\* yielded: the event type, the number of the source event it was made
\* from, the artifact's place in that event's list (0 otherwise) and
\* whether its delta is non-empty
NoStream ==
    [handler |-> "none", pc |-> "idle", out |-> <<>>, events |-> 0, pending |-> 0,
     disconnected |-> FALSE, late |-> FALSE, broke |-> FALSE,
     failed |-> FALSE, exc |-> "none", source |-> <<>>, sent |-> <<>>]

\* yield {"event": "stream", "data": json.dumps({"delta": content})}
stream_event(n, e) ==
    [event |-> "stream", of |-> n, index |-> 0, delta |-> e.nonempty]

\* yield {"event": "artifact", "data": artifact.model_dump_json()}
artifact_event(n, i) ==
    [event |-> "artifact", of |-> n, index |-> i, delta |-> FALSE]

\* an error chunk that is not followed by the [DONE] marker
on_exception_unterminated(st) ==
    [st EXCEPT !.out = Append(st.out, "error"), !.pc = "ended"]

\* yield f"data: {json.dumps(chunk)}\n\n" with delta {"content": content}
content_chunk(n) ==
    [event |-> "content", of |-> n, index |-> 0, delta |-> TRUE]

\* an exception inside the generator: the OpenAI-style generators catch it,
\* yield one error chunk and the [DONE] marker; the SSE generator has no
\* handler and the exception leaves it
on_exception(st) ==
    IF st.handler \in OpenAIHandlers
    THEN [st EXCEPT !.out = st.out \o <<"error", "[DONE]">>, !.pc = "ended"]
    ELSE [st EXCEPT !.pc = "raised", !.exc = "Exception"]

\* one iteration of stream_response
stream_response(st, e) ==
    [st EXCEPT !.events = st.events + 1,
               !.out = IF e.nonempty THEN Append(st.out, "content") ELSE st.out,
               !.sent = IF e.nonempty THEN Append(st.sent, content_chunk(st.events + 1))
                        ELSE st.sent]

\* one iteration of stream_workflow_response
stream_workflow_response(st, e) ==
    [st EXCEPT !.events = st.events + 1,
               !.out = IF e.kind = "content" /\ e.nonempty
                       THEN Append(st.out, "content") ELSE st.out,
               !.sent = IF e.kind = "content" /\ e.nonempty
                        THEN Append(st.sent, content_chunk(st.events + 1)) ELSE st.sent]

\* one iteration of the agent branch of SSEAdapter.handle_chat_request
sse_agent(st, e) ==
    IF st.disconnected
    THEN [st EXCEPT !.events = st.events + 1, !.pc = "ended", !.broke = TRUE]
    ELSE [st EXCEPT !.events = st.events + 1, !.out = Append(st.out, "stream"),
                    !.sent = Append(st.sent, stream_event(st.events + 1, e))]

\* a workflow branch that treats every event as the agent branch does
sse_workflow_as_agent(st, e) == sse_agent(st, e)

\* one iteration of the workflow branch, up to its first yield: the
\* artifacts of a content event are yielded one by one by the inner loop
sse_workflow(st, e) ==
    IF st.disconnected
    THEN [st EXCEPT !.events = st.events + 1, !.pc = "ended", !.broke = TRUE]
    ELSE IF e.kind # "content" THEN [st EXCEPT !.events = st.events + 1]
    ELSE IF e.has_artifacts /\ e.artifacts = 0 THEN [st EXCEPT !.events = st.events + 1]
    ELSE IF e.has_artifacts
    THEN [st EXCEPT !.events = st.events + 1, !.out = Append(st.out, "artifact"),
                    !.sent = Append(st.sent, artifact_event(st.events + 1, 1)),
                    !.pc = IF e.artifacts > 1 THEN "artifacts" ELSE "loop",
                    !.pending = e.artifacts - 1]
    ELSE [st EXCEPT !.events = st.events + 1, !.out = Append(st.out, "stream"),
                    !.sent = Append(st.sent, stream_event(st.events + 1, e))]

\* the route builds the generator
OpenStream(h) ==
    /\ stream.pc = "idle"
    /\ stream' = [stream EXCEPT !.handler = h, !.pc = "open"]
    /\ UNCHANGED nonstreamvars

\* await handler.arun(..., stream=True) returns the source; the OpenAI-style
\* generators then yield the role chunk
StartStream ==
    /\ stream.pc = "open"
    /\ stream' = IF stream.handler \in OpenAIHandlers
                  THEN [stream EXCEPT !.pc = "loop", !.out = <<"role">>]
                  ELSE [stream EXCEPT !.pc = "loop"]
    /\ UNCHANGED nonstreamvars

\* await handler.arun(..., stream=True) raises: nothing was yielded yet
StartRaises ==
    /\ stream.pc = "open"
    /\ stream' = on_exception(stream)
    /\ UNCHANGED nonstreamvars

\* the source delivers its next event
NextEvent(e) ==
    /\ stream.pc = "loop"
    /\ stream.events < MaxEvents
    /\ LET st == [stream EXCEPT !.source = Append(stream.source, e)]
       IN stream' = CASE st.handler = "stream_response" -> stream_response(st, e)
                       [] st.handler = "stream_workflow_response" ->
                              stream_workflow_response(st, e)
                       [] st.handler = "sse_agent" -> sse_agent(st, e)
                       [] st.handler = "sse_workflow" -> sse_workflow(st, e)
    /\ UNCHANGED nonstreamvars

\* for artifact in event.extra_data["artifacts"]: yield ... (next artifact)
NextArtifact ==
    /\ stream.pc = "artifacts"
    /\ stream' = [stream EXCEPT !.out = Append(stream.out, "artifact"),
                                 !.sent = Append(stream.sent,
                                     artifact_event(stream.events,
                                         stream.source[stream.events].artifacts
                                             - stream.pending + 1)),
                                 !.pending = stream.pending - 1,
                                 !.pc = IF stream.pending > 1 THEN "artifacts" ELSE "loop",
                                 !.late = stream.late \/ stream.disconnected]
    /\ UNCHANGED nonstreamvars

\* the source is exhausted: the OpenAI-style generators yield the stop
\* chunk and the [DONE] marker, the SSE generator just ends
SourceEnds ==
    /\ stream.pc = "loop"
    /\ stream' = IF stream.handler \in OpenAIHandlers
                  THEN [stream EXCEPT !.pc = "ended", !.out = stream.out \o <<"stop", "[DONE]">>]
                  ELSE [stream EXCEPT !.pc = "ended"]
    /\ UNCHANGED nonstreamvars

\* the agent or workflow raises while the stream is being produced
SourceRaises ==
    /\ stream.pc = "loop"
    /\ stream' = on_exception([stream EXCEPT !.failed = TRUE])
    /\ UNCHANGED nonstreamvars

\* the client goes away while the generator is suspended at a yield or
\* waiting for its source
Disconnect ==
    /\ stream.pc \in {"loop", "artifacts"}
    /\ ~stream.disconnected
    /\ stream' = [stream EXCEPT !.disconnected = TRUE]
    /\ UNCHANGED nonstreamvars

InitStream == stream = NoStream

(***************************************************************************)
(* HTTP requests to the API router: the three chat-completion routes and   *)
(* the three memory routes.  `ops` is what the request has caused so far:  *)
(* "provider" (agent_provider / memory_provider called), "run" (the agent  *)
(* or workflow run), "memory" (a memory read or write).                    *)
(***************************************************************************)
ChatEndpoints == {"chat_completions", "workflow_chat_completions", "sse_chat_completions"}
MemoryEndpoints == {"get_memories", "add_memory", "delete_memory"}
Endpoints == ChatEndpoints \cup MemoryEndpoints
Credentials == {"none", "api-key", "bearer"}

MemoryIds == {"m1", "m2"}

\* a request: its route, the credentials in its headers, the {type} path
\* segment (SSE route), whether its messages hold a non-empty user
\* message, its stream flag, whether its model name is registered, and the
\* {memory_id} it names (memory routes)
HttpRequests ==
    [endpoint : Endpoints, credentials : Credentials, type : Kinds,
     user_message : BOOLEAN, stream : BOOLEAN, registered : BOOLEAN,
     memory_id : MemoryIds]

\* `exc` is the exception that left the route function or the response
\* body, `started` whether the response had begun by then, `body` what the
\* caller was sent, `context` the Context Store of the request's task
NoBody == [kind |-> "none", message |-> "none"]

NoRequest ==
    [pc |-> "idle", endpoint |-> "none", credentials |-> "none", type |-> "none",
     user_message |-> FALSE, stream |-> FALSE, registered |-> FALSE,
     memory_id |-> "none", status |-> 0, ops |-> {}, exc |-> "none",
     started |-> FALSE, body |-> NoBody, context |-> NewContext]

\* the dependencies a route declares: the decorators and signatures of the
\* routes name none, and get_api_key / get_bearer_token are used nowhere
dependencies(endpoint) == {}

\* an exception left the route function and no handler is registered for it
exception_unhandled(w, exc) == [w EXCEPT !.pc = "aborted", !.exc = exc]

\* @app.exception_handler(Exception): a JSON body with str(exc), status 500
catch_exceptions_middleware(w, exc) ==
    [w EXCEPT !.pc = "responded", !.status = 500, !.exc = exc,
              !.body = [kind |-> "error", message |-> exc]]

\* raise HTTPException(status_code=400, detail=...): the framework answers
\* an HTTPException with its own status and detail
http_exception(w, status_code) ==
    [w EXCEPT !.pc = "responded", !.status = status_code, !.exc = "HTTPException",
              !.body = [kind |-> "detail", message |-> "HTTPException"]]

\* a request enters the router
Receive(req) ==
    /\ web.pc = "idle"
    /\ web' = [NoRequest EXCEPT !.pc = "received", !.endpoint = req.endpoint,
                                !.credentials = req.credentials, !.type = req.type,
                                !.user_message = req.user_message, !.stream = req.stream,
                                !.registered = req.registered,
                                !.memory_id = req.memory_id]
    /\ UNCHANGED <<memories, nonwebvars>>

\* the framework solves the route's dependencies and validates its
\* parameters: `type: Literal["agent", "workflow"]` on the SSE route
SolveDependencies ==
    /\ web.pc = "received"
    /\ web' = IF dependencies(web.endpoint) # {} /\ web.credentials = "none"
               THEN [web EXCEPT !.pc = "responded", !.status = 401]
               ELSE IF web.endpoint = "sse_chat_completions"
                       /\ web.type \notin {"agent", "workflow"}
               THEN [web EXCEPT !.pc = "responded", !.status = 422]
               ELSE [web EXCEPT !.pc = "handler"]
    /\ UNCHANGED <<memories, nonwebvars>>

\* the routes that call set_current_workflow(handler) after the provider
\* has returned: none in the earlier snapshot
sets_current_workflow(w) ==
    /\ variant = "current"
    /\ \/ w.endpoint = "workflow_chat_completions"
       \/ w.endpoint = "sse_chat_completions" /\ w.type = "workflow"

\* what the route function stores in the Context Store of its task
route_context(w) ==
    IF sets_current_workflow(w)
    THEN set_current_workflow([t \in {"route"} |-> w.context], "route", "handler")["route"]
    ELSE w.context

\* a chat route function starts: router.agent_provider(...); an
\* unregistered name is a ValueError, which leaves the route; then the
\* route's writes to the Context Store
EnterRoute ==
    /\ web.pc = "handler"
    /\ web.endpoint \in ChatEndpoints
    /\ web' = IF ~web.registered
               THEN catch_exceptions_middleware([web EXCEPT !.ops = {"provider"}],
                                                "ValueError")
               ELSE [web EXCEPT !.pc = "adapter", !.ops = {"provider"},
                                !.context = route_context(web)]
    /\ UNCHANGED <<memories, nonwebvars>>

\* OpenAIAdapter.handle_chat_request / handle_workflow_chat_request:
\* extract_user_message, then a StreamingResponse or the awaited run, which
\* returns a response or raises
HandleChatRequest(raises) ==
    /\ web.pc = "adapter"
    /\ web.endpoint \in {"chat_completions", "workflow_chat_completions"}
    /\ web.stream => ~raises
    /\ web.user_message \/ ~raises
    /\ web' = IF ~web.user_message
               THEN http_exception(web, 400)
               ELSE IF web.stream
               THEN [web EXCEPT !.pc = "streaming", !.status = 200, !.started = TRUE]
               ELSE IF raises
               THEN catch_exceptions_middleware(
                        [web EXCEPT !.ops = web.ops \cup {"run"}], "RunError")
               ELSE [web EXCEPT !.pc = "responded", !.status = 200,
                                !.ops = web.ops \cup {"run"},
                                !.body = [kind |-> "completion", message |-> "none"]]
    /\ UNCHANGED <<memories, nonwebvars>>

\* sse_chat_completions: SSEAdapter.handle_chat_request(...) only creates
\* the async generator; the route returns EventSourceResponse(generator)
ReturnEventSource ==
    /\ web.pc = "adapter"
    /\ web.endpoint = "sse_chat_completions"
    /\ web' = [web EXCEPT !.pc = "streaming", !.status = 200, !.started = TRUE]
    /\ UNCHANGED <<memories, nonwebvars>>

\* the response has started and its generator is iterated: the SSE
\* generator calls extract_user_message here, and its HTTPException ends
\* the stream; otherwise the agent or workflow is run
IterateBody ==
    /\ web.pc = "streaming"
    /\ web' = IF web.endpoint = "sse_chat_completions" /\ ~web.user_message
               THEN [web EXCEPT !.pc = "aborted", !.exc = "HTTPException"]
               ELSE [web EXCEPT !.pc = "responded", !.ops = web.ops \cup {"run"},
                                !.body = [kind |-> "events", message |-> "none"]]
    /\ UNCHANGED <<memories, nonwebvars>>

\* get_memories: router.memory_provider(), memory.get_user_memories(...)
GetMemories ==
    /\ web.pc = "handler"
    /\ web.endpoint = "get_memories"
    /\ web' = [web EXCEPT !.pc = "responded", !.status = 200,
                          !.ops = {"provider", "memory"},
                          !.body = [kind |-> "result", message |-> "none"]]
    /\ UNCHANGED <<memories, nonwebvars>>

\* add_memory: router.memory_provider(), memory.add_user_memory(...)
AddMemory ==
    /\ web.pc = "handler"
    /\ web.endpoint = "add_memory"
    /\ memories' = memories \cup {web.memory_id}
    /\ web' = [web EXCEPT !.pc = "responded", !.status = 200,
                          !.ops = {"provider", "memory"},
                          !.body = [kind |-> "result", message |-> "none"]]
    /\ UNCHANGED nonwebvars

\* what client.delete(memory_id=...) of the memory library can do: it
\* deletes a stored memory; for an id that is not stored it returns, raises
\* IndexError or raises another error
DeleteOutcomes(stored) ==
    IF stored THEN {"deleted"} ELSE {"returned", "IndexError", "LibraryError"}

\* Mem0Memory.delete_user_memory: IndexError is logged and swallowed, any
\* other exception of the client propagates
delete_user_memory(outcome) ==
    IF outcome \in {"deleted", "returned", "IndexError"} THEN "none" ELSE outcome

\* delete_memory: router.memory_provider(), memory.delete_user_memory(...)
DeleteMemory(outcome) ==
    /\ web.pc = "handler"
    /\ web.endpoint = "delete_memory"
    /\ outcome \in DeleteOutcomes(web.memory_id \in memories)
    /\ memories' = IF outcome = "deleted" THEN memories \ {web.memory_id} ELSE memories
    /\ LET w == [web EXCEPT !.ops = {"provider", "memory"}]
           exc == delete_user_memory(outcome)
       IN web' = IF exc # "none"
                  THEN catch_exceptions_middleware(w, exc)
                  ELSE [w EXCEPT !.pc = "responded", !.status = 200,
                                 !.body = [kind |-> "result", message |-> "none"]]
    /\ UNCHANGED nonwebvars

\* the exchange is over
CloseRequest ==
    /\ web.pc \in {"responded", "aborted"}
    /\ web' = NoRequest
    /\ UNCHANGED <<memories, nonwebvars>>

InitWeb == web = NoRequest /\ memories = {}

(***************************************************************************)
(* AsyncHttpClient / SyncHttpClient: _request(method, url, **kwargs) as a  *)
(* function of what the upstream does.                                     *)
(***************************************************************************)
Wrappers == {"AsyncHttpClient", "SyncHttpClient"}
Methods == {"GET", "POST", "PUT", "DELETE"}
StatusCodes == {200, 204, 302, 404, 500}

\* what self.client.request does: it returns a response (a status code and
\* a body that is JSON or not), raises a subclass of httpx.RequestError, or
\* raises something else (httpx.InvalidURL is not a RequestError)
Upstreams ==
    [kind : {"response"}, code : StatusCodes, body : {"json", "text"}, exc : {"none"}]
        \cup [kind : {"raise"}, code : {0}, body : {"none"},
              exc : {"ConnectError", "ReadTimeout", "InvalidURL"}]

RequestErrors == {"ConnectError", "ReadTimeout"}

\* response.is_success, which raise_for_status tests
is_success(code) == code >= 200 /\ code <= 299

\* the returned dict (its keys, and the values under them) or the exception
NoResult ==
    [raised |-> "none", keys |-> {}, status_is_none |-> FALSE, status |-> 0,
     data |-> "none", error |-> "none"]

\* a wrapper that lets HTTPStatusError out
request_unhandled(upstream) ==
    IF upstream.kind = "raise" THEN [NoResult EXCEPT !.raised = upstream.exc]
    ELSE IF ~is_success(upstream.code) THEN [NoResult EXCEPT !.raised = "HTTPStatusError"]
    ELSE [NoResult EXCEPT !.keys = {"status", "data"}, !.status = upstream.code,
                          !.data = upstream.body]

\* AsyncHttpClient._request
async_request(upstream) ==
    IF upstream.kind = "raise"
    THEN IF upstream.exc \in RequestErrors
         THEN [NoResult EXCEPT !.keys = {"status", "error"}, !.status_is_none = TRUE,
                               !.error = upstream.exc]
         ELSE [NoResult EXCEPT !.raised = upstream.exc]
    ELSE IF ~is_success(upstream.code)
    THEN [NoResult EXCEPT !.keys = {"status", "error"}, !.status = upstream.code,
                          !.error = "HTTPStatusError"]
    ELSE [NoResult EXCEPT !.keys = {"status", "data"}, !.status = upstream.code,
                          !.data = upstream.body]

\* SyncHttpClient._request
sync_request(upstream) ==
    IF upstream.kind = "raise"
    THEN IF upstream.exc \in RequestErrors
         THEN [NoResult EXCEPT !.keys = {"status", "error"}, !.status_is_none = TRUE,
                               !.error = upstream.exc]
         ELSE [NoResult EXCEPT !.raised = upstream.exc]
    ELSE IF ~is_success(upstream.code)
    THEN [NoResult EXCEPT !.keys = {"status", "error"}, !.status = upstream.code,
                          !.error = "HTTPStatusError"]
    ELSE [NoResult EXCEPT !.keys = {"status", "data"}, !.status = upstream.code,
                          !.data = upstream.body]

NoCall == [made |-> FALSE, method |-> "none", upstream |-> "none", result |-> NoResult]

\* _get / _post / _put / _delete of the async wrapper
AsyncRequest(method, upstream) ==
    /\ calls' = [calls EXCEPT !["AsyncHttpClient"] =
                     [made |-> TRUE, method |-> method, upstream |-> upstream,
                      result |-> async_request(upstream)]]
    /\ UNCHANGED <<reranked, nonclientvars>>

\* _get / _post / _put / _delete of the sync wrapper
SyncRequest(method, upstream) ==
    /\ calls' = [calls EXCEPT !["SyncHttpClient"] =
                     [made |-> TRUE, method |-> method, upstream |-> upstream,
                      result |-> sync_request(upstream)]]
    /\ UNCHANGED <<reranked, nonclientvars>>

\* AsyncRerankerClient / RerankerClient: rerank(query, documents) posts to
\* /rerank through the wrapper it extends and reads the wrapper's result
Rerankers == {"AsyncRerankerClient", "RerankerClient"}

NoRerank == [made |-> FALSE, upstream |-> "none", ret |-> "none", exc |-> "none"]

\* response[key] on the dict the wrapper returned: KeyError when absent
has_key(response, key) == key \in response.keys

\* raise RerankerError(f"... ({response['status']}) {response['error']}")
raise_reranker_error(response) ==
    IF has_key(response, "error") THEN "RerankerError" ELSE "KeyError"

\* AsyncRerankerClient.rerank: response["data"]["results"]; a text body is
\* a str, which has no string keys
async_rerank(response) ==
    IF response.raised # "none" THEN [ret |-> "none", exc |-> response.raised]
    ELSE IF response.status_is_none \/ response.status # 200
    THEN [ret |-> "none", exc |-> raise_reranker_error(response)]
    ELSE IF response.data = "json" THEN [ret |-> "results", exc |-> "none"]
    ELSE [ret |-> "none", exc |-> "TypeError"]

\* RerankerClient.rerank: response["results"]
sync_rerank(response) ==
    IF response.raised # "none" THEN [ret |-> "none", exc |-> response.raised]
    ELSE IF response.status_is_none \/ response.status # 200
    THEN [ret |-> "none", exc |-> raise_reranker_error(response)]
    ELSE IF has_key(response, "results") THEN [ret |-> "results", exc |-> "none"]
    ELSE [ret |-> "none", exc |-> "KeyError"]

AsyncRerank(upstream) ==
    /\ LET response == async_request(upstream)
           out == async_rerank(response)
       IN /\ calls' = [calls EXCEPT !["AsyncHttpClient"] =
                           [made |-> TRUE, method |-> "POST", upstream |-> upstream,
                            result |-> response]]
          /\ reranked' = [reranked EXCEPT !["AsyncRerankerClient"] =
                              [made |-> TRUE, upstream |-> upstream,
                               ret |-> out.ret, exc |-> out.exc]]
    /\ UNCHANGED nonclientvars

SyncRerank(upstream) ==
    /\ LET response == sync_request(upstream)
           out == sync_rerank(response)
       IN /\ calls' = [calls EXCEPT !["SyncHttpClient"] =
                           [made |-> TRUE, method |-> "POST", upstream |-> upstream,
                            result |-> response]]
          /\ reranked' = [reranked EXCEPT !["RerankerClient"] =
                              [made |-> TRUE, upstream |-> upstream,
                               ret |-> out.ret, exc |-> out.exc]]
    /\ UNCHANGED nonclientvars

InitClient ==
    /\ calls = [w \in Wrappers |-> NoCall]
    /\ reranked = [c \in Rerankers |-> NoRerank]

Init ==
    /\ InitRegistry /\ InitContext /\ InitRun /\ InitStream /\ InitWeb /\ InitClient
    /\ InitHandle
    /\ InitPlugins
    /\ InitApps

NextRegistry ==
    \/ \E n \in Names, h \in Handles : register_vectordb(n, h)
    \/ \E n \in Names, f \in Factories, c \in RegConfigs : register_agent_factory(n, f, c)
    \/ \E n \in Names, f \in Factories, g \in BOOLEAN, c \in RegConfigs :
           register_workflow_factory(n, f, g, c)
    \/ \E n \in Names, h \in Handles : register_task(n, h)
    \/ \E n \in Names, h \in Handles : register_vectordb_earlier(n, h)
    \/ \E n \in Names, f \in Factories, c \in RegConfigs :
           register_agent_factory_earlier(n, f, c)
    \/ \E n \in Names, f \in Factories, g \in BOOLEAN, c \in RegConfigs :
           register_workflow_factory_earlier(n, f, g, c)
    \/ \E n \in Names : HasVectorDb(n)
    \/ \E n \in Names : HasAgent(n)
    \/ \E n \in Names : HasWorkflow(n)
    \/ \E n \in Names : ResolveVectorDb(n)
    \/ \E n \in Names \cup {BuiltinTask} : ResolveTask(n)
    \/ \E n \in Names, kw \in Overrides : ResolveAgent(n, kw)
    \/ \E n \in Names, kw \in Overrides : ResolveWorkflow(n, kw)
    \/ \E n \in Names, t \in Kinds, kw \in Overrides : Provide(n, t, kw)
    \/ \E n \in Names \cup {BuiltinTask}, kw \in TaskKwargs :
           RunTask(n, <<"a">>, kw)

Next == NextRegistry

Spec == Init /\ [][Next]_vars

NextContext ==
    \/ \E r \in Requests : StartRequest(r)
    \/ \E r \in Requests : Resume(r)
    \/ \E r \in Requests : Suspend(r)
    \/ \E r \in Requests : Finish(r)
    \/ \E r \in Requests, v \in SlotValues : SetSessionId(r, v)
    \/ \E r \in Requests : GetSessionId(r)
    \/ \E r \in Requests, v \in SlotValues : SetJwtToken(r, v)
    \/ \E r \in Requests : GetJwtToken(r)
    \/ \E r \in Requests, v \in SlotValues : SetWorkflow(r, v)
    \/ \E r \in Requests : GetWorkflow(r)

\* requests served by an orchestrator whose registry is already populated
ContextSpec == Init /\ [][NextContext]_vars

\* requests and the tasks they spawn, around the slot the streaming
\* endpoint sets before it starts its agent or workflow
NextTask ==
    \/ \E r \in Requests : StartRequest(r)
    \/ \E t \in AsyncTasks : Resume(t)
    \/ \E t \in AsyncTasks : Suspend(t)
    \/ \E t \in AsyncTasks : Finish(t)
    \/ \E r \in Requests, c \in Children : SpawnChild(r, c)
    \/ \E t \in AsyncTasks, v \in SlotValues : SetWorkflow(t, v)
    \/ \E t \in AsyncTasks : GetWorkflow(t)

TaskSpec == Init /\ [][NextTask]_vars

\* requests whose code reaches for the workflow handle
NextHandle ==
    \/ \E r \in Requests : StartRequest(r)
    \/ \E r \in Requests : Resume(r)
    \/ \E r \in Requests : Suspend(r)
    \/ \E r \in Requests : Finish(r)
    \/ \E r \in Requests, v \in SlotValues \cup {"None"} : SetCurrentWorkflow(r, v)
    \/ \E r \in Requests : GetCurrentWorkflow(r)
    \/ \E r \in Requests, a \in WorkflowIds : CustomSessionState(r, a)

HandleSpec == Init /\ [][NextHandle]_vars

NextPlugins ==
    \E m \in Instances, ok \in LoadOutcomes, how \in RegisterOutcomes : EnablePlugins(m, ok, how)

PluginSpec == Init /\ [][NextPlugins]_vars

NextApps ==
    \/ \E m \in Instances : GetApp(m)
    \/ \E m \in Instances, e \in Endpoints : ServeRequest(m, e)

AppSpec == Init /\ [][NextApps]_vars

NextRun ==
    \/ StartRun
    \/ ModelRaises
    \/ \E c \in Responses, p \in BOOLEAN : ModelResponds(c, p)
    \/ \E saves \in BOOLEAN : HandleAgentRunPaused(saves)
    \/ CreateUpdateTask
    \/ SetSessionMetrics
    \/ WriteToStorage
    \/ LogAgentRun
    \/ ReturnResponse
    \/ BeginUpdate
    \/ \E o \in UpdateOutcomes : EndUpdate(o)

RunSpec == Init /\ [][NextRun]_vars

NextStream ==
    \/ \E h \in StreamHandlers : OpenStream(h)
    \/ StartStream
    \/ \E e \in SourceEvents : NextEvent(e)
    \/ NextArtifact
    \/ StartRaises
    \/ SourceEnds
    \/ SourceRaises
    \/ Disconnect

StreamSpec == Init /\ [][NextStream]_vars

NextWeb ==
    \/ \E req \in HttpRequests : Receive(req)
    \/ SolveDependencies
    \/ EnterRoute
    \/ \E raises \in BOOLEAN : HandleChatRequest(raises)
    \/ GetMemories
    \/ AddMemory
    \/ \E outcome \in {"deleted", "returned", "IndexError", "LibraryError"} : DeleteMemory(outcome)
    \/ ReturnEventSource
    \/ IterateBody
    \/ CloseRequest

WebSpec == Init /\ [][NextWeb]_vars

NextClient ==
    \/ \E m \in Methods, u \in Upstreams : AsyncRequest(m, u)
    \/ \E m \in Methods, u \in Upstreams : SyncRequest(m, u)

ClientSpec == Init /\ [][NextClient]_vars

NextRerank ==
    \/ \E u \in Upstreams : AsyncRerank(u)
    \/ \E u \in Upstreams : SyncRerank(u)

RerankSpec == Init /\ [][NextRerank]_vars

(***************************************************************************)
(* Vocabulary of the properties                                            *)
(***************************************************************************)
\* positions of the records named `name`, and the earliest of them
Positions(table, name) == {i \in DOMAIN table : table[i].name = name}
Earliest(table, name) == {i \in Positions(table, name) : \A j \in Positions(table, name) : i <= j}

\* the override-wins merge {**config, **kwargs}
Merge(config, kwargs) ==
    [k \in DOMAIN config \cup DOMAIN kwargs |->
        IF k \in DOMAIN kwargs THEN kwargs[k] ELSE config[k]]

RegisterOps == {"register_vectordb", "register_agent_factory",
                "register_workflow_factory", "register_task"}
ResolveOps == {"get_vectordb", "get_agent", "get_workflow", "get_task"}

\* every step keeps the records a table already holds, in their order
KeepsRecords ==
    /\ SubSeq(agent_factories', 1, Len(agent_factories)) = agent_factories
    /\ SubSeq(workflow_factories', 1, Len(workflow_factories)) = workflow_factories
    /\ SubSeq(vectordbs', 1, Len(vectordbs)) = vectordbs
    /\ SubSeq(tasks', 1, Len(tasks)) = tasks

\* the binding a resolve of a name registered more than once is answered from
C1_FirstOfDuplicates ==
    /\ (last.op = "get_vectordb" /\ Cardinality(Positions(vectordbs, last.name)) > 1) =>
           \A i \in Earliest(vectordbs, last.name) : last.ret = vectordbs[i].vector_db
    /\ (last.op = "get_task" /\ Cardinality(Positions(tasks, last.name)) > 1) =>
           \A i \in Earliest(tasks, last.name) : last.ret = tasks[i].task
    /\ (last.op = "get_agent" /\ Cardinality(Positions(agent_factories, last.name)) > 1) =>
           \A i \in Earliest(agent_factories, last.name) :
               /\ last.kwargs = EmptyCfg => last.invoked
               /\ last.invoked =>
                      /\ last.factory = agent_factories[i].agent_factory
                      /\ \A k \in DOMAIN agent_factories[i].agent_config :
                             /\ k \in DOMAIN last.passed
                             /\ last.passed[k] = agent_factories[i].agent_config[k]
    /\ (last.op = "get_workflow" /\ Cardinality(Positions(workflow_factories, last.name)) > 1) =>
           \A i \in Earliest(workflow_factories, last.name) :
               /\ last.kwargs = EmptyCfg => last.invoked
               /\ last.invoked =>
                      /\ last.factory = workflow_factories[i].workflow_factory
                      /\ \A k \in DOMAIN workflow_factories[i].workflow_config :
                             /\ k \in DOMAIN last.passed
                             /\ last.passed[k] = workflow_factories[i].workflow_config[k]

(***************************************************************************)
(* C1: in every domain, resolving a name registered more than once gives   *)
(* the first-registered binding's result: the handle of the earliest       *)
(* record (vector databases, tasks), the earliest record's factory called  *)
(* with its config (agents, workflows); and no step removes or reorders a  *)
(* record already registered.                                              *)
(***************************************************************************)
C1_FirstRegisteredWins == [] C1_FirstOfDuplicates /\ [][KeepsRecords]_vars

\* an agent name bound twice, to different factories and configs, resolved
C1_Witness ==
    /\ last.op = "get_agent"
    /\ last.invoked
    /\ Len(agent_factories) = 2
    /\ agent_factories[1].name = last.name
    /\ agent_factories[2].name = last.name
    /\ agent_factories[1].agent_factory # agent_factories[2].agent_factory
    /\ agent_factories[1].agent_config # agent_factories[2].agent_config

\* the record was appended, and a warning was logged iff the name was there before
AppendedAndWarned(table) ==
    /\ Len(table) >= 1
    /\ table[Len(table)].name = last.name
    /\ last.warned = (\E i \in 1..(Len(table) - 1) : table[i].name = last.name)

(***************************************************************************)
(* C2: in each of the four domains a registration appends a record, and it *)
(* logs a warning exactly when the name was already registered in that     *)
(* domain.                                                                 *)
(***************************************************************************)
C2_DuplicateWarnsInEveryDomain ==
    /\ last.op = "register_vectordb" => AppendedAndWarned(vectordbs)
    /\ last.op = "register_agent_factory" => AppendedAndWarned(agent_factories)
    /\ last.op = "register_workflow_factory" => AppendedAndWarned(workflow_factories)
    /\ last.op = "register_task" => AppendedAndWarned(tasks)

\* a not-found error naming the domain and the requested name, no factory called
NotFound(domain) ==
    /\ last.exc = "ValueError"
    /\ last.exc_domain = domain
    /\ last.exc_name = last.name
    /\ ~last.invoked

(***************************************************************************)
(* C3: resolving a name that is not registered in a domain raises a        *)
(* not-found error that names the domain and the requested name, and       *)
(* invokes no factory, whatever the table holds (also when it is empty).   *)
(***************************************************************************)
C3_UnregisteredIsNotFound ==
    /\ (last.op = "get_vectordb" /\ Positions(vectordbs, last.name) = {}) =>
           NotFound("Vector database")
    /\ (last.op = "get_agent" /\ Positions(agent_factories, last.name) = {}) =>
           NotFound("Agent factory")
    /\ (last.op = "get_workflow" /\ Positions(workflow_factories, last.name) = {}) =>
           NotFound("Workflow factory")
    /\ (last.op = "get_task" /\ Positions(tasks, last.name) = {}) =>
           NotFound("Task")

(***************************************************************************)
(* C4: resolving an agent or workflow with keyword overrides succeeds and  *)
(* calls the factory with the registered config merged with the overrides, *)
(* the call-time value winning for a key present in both.                  *)
(***************************************************************************)
C4_OverridesWin ==
    /\ last.op = "get_agent" =>
           \A i \in Earliest(agent_factories, last.name) :
               /\ last.exc = "none"
               /\ last.invoked
               /\ last.passed = Merge(agent_factories[i].agent_config, last.kwargs)
    /\ last.op = "get_workflow" =>
           \A i \in Earliest(workflow_factories, last.name) :
               /\ last.exc = "none"
               /\ last.invoked
               /\ last.passed = Merge(workflow_factories[i].workflow_config, last.kwargs)

\* what the factory received when no override was given; a resolve writes no table
C5_ConfigPassedUnchanged ==
    /\ (last.op = "get_agent" /\ last.kwargs = EmptyCfg) =>
           \A i \in Earliest(agent_factories, last.name) :
               /\ last.invoked
               /\ last.exc = "none"
               /\ last.factory = agent_factories[i].agent_factory
               /\ last.passed = agent_factories[i].agent_config
    /\ (last.op = "get_workflow" /\ last.kwargs = EmptyCfg) =>
           \A i \in Earliest(workflow_factories, last.name) :
               /\ last.invoked
               /\ last.exc = "none"
               /\ last.factory = workflow_factories[i].workflow_factory
               /\ last.passed = workflow_factories[i].workflow_config

ResolveKeepsTables == (last'.op \in ResolveOps) => (tables' = tables)

(***************************************************************************)
(* C5: an agent or workflow resolved with no overrides has its factory     *)
(* called with exactly the registered config (the same keys, the same      *)
(* values), and a resolve leaves every stored record as it was.            *)
(***************************************************************************)
C5_ResolveWithoutOverrides == [] C5_ConfigPassedUnchanged /\ [][ResolveKeepsTables]_vars

\* a workflow registered with a non-empty config, resolved without overrides
C5_Witness ==
    /\ last.op = "get_workflow"
    /\ last.kwargs = EmptyCfg
    /\ last.invoked
    /\ last.passed # EmptyCfg
    /\ \E i \in Earliest(workflow_factories, last.name) :
           last.passed = workflow_factories[i].workflow_config

\* the handle returned by a resolve, and by the resolve after it
C6_HandleReturned ==
    /\ last.op = "get_vectordb" =>
           \A i \in Earliest(vectordbs, last.name) :
               /\ last.ret = vectordbs[i].vector_db
               /\ last.exc = "none"
               /\ ~last.invoked
    /\ last.op = "get_task" =>
           \A i \in Earliest(tasks, last.name) :
               /\ last.ret = tasks[i].task
               /\ last.exc = "none"
               /\ ~last.invoked

SameHandleAgain ==
    (/\ last.op \in {"get_vectordb", "get_task"}
     /\ last.exc = "none"
     /\ last'.op = last.op
     /\ last'.name = last.name) => (last'.ret = last.ret)

(***************************************************************************)
(* C6: get_vectordb and get_task return the stored handle of the first     *)
(* record with the name, without invoking it, and resolving the same name  *)
(* again returns the same handle.                                          *)
(***************************************************************************)
C6_HandleResolvedDirectly == [] C6_HandleReturned /\ [][SameHandleAgain]_vars

\* a vector database name registered twice with different handles, resolved
C6_Witness ==
    /\ last.op = "get_vectordb"
    /\ Len(vectordbs) = 2
    /\ vectordbs[1].name = last.name
    /\ vectordbs[2].name = last.name
    /\ vectordbs[1].vector_db # vectordbs[2].vector_db
    /\ last.ret = vectordbs[1].vector_db

\* the error raised for an unknown kind; the provider writes no table
C7_InvalidKindRaised ==
    (last.op = "AgentProvider" /\ last.type_ \notin {"agent", "workflow"}) =>
        /\ last.exc = "ValueError"
        /\ last.exc_domain = "Invalid type"
        /\ last.exc_name = last.type_
        /\ ~last.invoked
        /\ last.ret = "none"

ProviderKeepsTables ==
    (last'.op = "AgentProvider") =>
        /\ agent_factories' = agent_factories
        /\ workflow_factories' = workflow_factories

(***************************************************************************)
(* C7: the provider called with a kind that is neither "agent" nor         *)
(* "workflow" raises an invalid-argument error for every name, calls no    *)
(* factory and leaves the agent and workflow tables as they were.          *)
(***************************************************************************)
C7_InvalidKindRejected == [] C7_InvalidKindRaised /\ [][ProviderKeepsTables]_vars

\* a bogus kind given together with a name that is a registered agent
C7_Witness ==
    /\ last.op = "AgentProvider"
    /\ last.type_ = "bogus"
    /\ has_agent(last.name)
    /\ last.exc = "ValueError"

\* the factory was called and every keyword argument is among what it received
KwargsReachFactory ==
    /\ last.invoked
    /\ \A k \in DOMAIN last.kwargs :
           k \in DOMAIN last.passed /\ last.passed[k] = last.kwargs[k]

(***************************************************************************)
(* C8: the provider resolves kind "agent" in the agent table only and kind *)
(* "workflow" in the workflow table only, and every keyword argument it is *)
(* given reaches the factory, for workflows as well as agents.             *)
(***************************************************************************)
C8_ProviderDelegates ==
    /\ (last.op = "AgentProvider" /\ last.type_ = "agent") =>
           /\ Positions(agent_factories, last.name) = {} => NotFound("Agent factory")
           /\ \A i \in Earliest(agent_factories, last.name) :
                  /\ KwargsReachFactory
                  /\ last.factory = agent_factories[i].agent_factory
    /\ (last.op = "AgentProvider" /\ last.type_ = "workflow") =>
           /\ Positions(workflow_factories, last.name) = {} => NotFound("Workflow factory")
           /\ \A i \in Earliest(workflow_factories, last.name) :
                  /\ KwargsReachFactory
                  /\ last.factory = workflow_factories[i].workflow_factory

(***************************************************************************)
(* C9: a read of a slot inside a request that has set the slot yields the  *)
(* value that request set last (R1 reads "A", R2 reads "B"), under every   *)
(* interleaving of the requests' sets, suspensions and reads; for the      *)
(* session-id, auth-token and current-workflow slots alike.                *)
(***************************************************************************)
C9_RequestReadsOwnValue ==
    (seen.task \in Requests /\ own[seen.task][seen.slot] # "unset") =>
        seen.value = own[seen.task][seen.slot]

\* R1 set "A", was suspended while R2 set "B", and then reads
C9_Witness ==
    /\ seen = [task |-> "R1", slot |-> "session_id", value |-> "A"]
    /\ own["R2"].session_id = "B"
    /\ status["R2"] = "suspended"

(***************************************************************************)
(* C10: a read of a slot inside a request that has not written the slot    *)
(* yields the default None, whatever other requests, concurrent or         *)
(* finished, have written to it.                                           *)
(***************************************************************************)
C10_UnwrittenReadsDefault ==
    (seen.task \in Requests /\ own[seen.task][seen.slot] = "unset") =>
        seen.value = "None"

\* R1 reads the slot it never wrote while R2, suspended, holds "B" in its own
C10_Witness ==
    /\ seen = [task |-> "R1", slot |-> "session_id", value |-> "None"]
    /\ own["R1"].session_id = "unset"
    /\ own["R2"].session_id = "B"
    /\ status["R2"] = "suspended"

\* a read returns what the reading task set itself, else what the context
\* of its creator held when the task was created (the default for a request)
ReadsOwnOrInherited ==
    seen.task \in AsyncTasks =>
        seen.value = IF own[seen.task][seen.slot] # "unset"
                     THEN own[seen.task][seen.slot]
                     ELSE born[seen.task][seen.slot]

\* a request task is created by the server, in whose context no slot is set
RequestBornEmpty == \A r \in Requests : born[r] = NewContext

\* a set changes the slot in the context of the task that runs it and
\* nothing else in any context
SetIsLocal ==
    \A t \in AsyncTasks, s \in Slots :
        ctx'[t][s] # ctx[t][s] => status[t] = "running" \/ status[t] = "idle"

(***************************************************************************)
(* C11: a task spawned by a request reads, in every slot it has not set    *)
(* itself, the value the request's context held when the task was spawned; *)
(* a request never starts from another request's values; and a set made by *)
(* any task (child, parent or sibling) changes no other task's context, so *)
(* every task keeps reading its own or its inherited value.                *)
(***************************************************************************)
C11_ChildInheritsSiblingIsolated ==
    [] (ReadsOwnOrInherited /\ RequestBornEmpty) /\ [][SetIsLocal]_vars

\* the child reads a value its parent set before spawning it, while its
\* parent has since set another one and the sibling request yet another
C11_Witness ==
    /\ seen.task \in Children
    /\ seen.slot = "workflow"
    /\ own[seen.task].workflow = "unset"
    /\ seen.value = "A"
    /\ \E r \in Requests : own[r].workflow = "B"

\* the function the runner calls for a task name: the first registered
DeclaredBy(task_name) ==
    signature(tasks[FirstMatch(tasks, task_name)].task)

\* the keyword arguments of the call: the caller's, and the accessor under
\* each name the function declares
InjectedIffDeclared ==
    (variant = "current" /\ last.op = "async_run_task" /\ last.invoked) =>
        /\ FirstMatch(tasks, last.name) # 0
        /\ \A p \in {"vectordb_provider", "agent_provider"} :
               p \in last.injected <=> p \in DeclaredBy(last.name)
        /\ last.injected \subseteq {"vectordb_provider", "agent_provider"}
        /\ last.passed_args = last.args
        /\ \A k \in DOMAIN last.kwargs \ last.injected :
               k \in DOMAIN last.passed /\ last.passed[k] = last.kwargs[k]
        /\ DOMAIN last.passed = DOMAIN last.kwargs \ last.injected
        /\ DeclaredBy(last.name) \cap {"vectordb_provider", "agent_provider"} = {} =>
               last.injected = {} /\ last.passed = last.kwargs

\* the handle the task obtained from its accessor is this registry's
AccessorUsesOwnRegistry ==
    (variant = "current" /\ last.op = "async_run_task" /\ last.used # "none") =>
        /\ FirstMatch(vectordbs, last.args[1]) # 0
        /\ last.used = vectordbs[FirstMatch(vectordbs, last.args[1])].vector_db

(***************************************************************************)
(* C12: in the current snapshot the task runner calls the task function    *)
(* with the caller's positional arguments and the caller's keyword         *)
(* arguments, plus a vectordb_provider iff the function declares that name *)
(* and an agent_provider iff it declares that name; a function declaring   *)
(* neither gets exactly the caller's arguments; and what a task obtains    *)
(* from the injected accessor is the binding of the running orchestrator's *)
(* own registry.                                                           *)
(***************************************************************************)
C12_ProvidersInjectedIffDeclared == InjectedIffDeclared /\ AccessorUsesOwnRegistry

\* a function declaring only agent_provider was run with a caller's keyword
C12_Witness ==
    /\ variant = "current"
    /\ last.op = "async_run_task"
    /\ last.invoked
    /\ last.factory = "h1"
    /\ last.injected = {"agent_provider"}
    /\ last.kwargs # EmptyCfg
    /\ last.passed = last.kwargs

\* the update has ended by raising
UpdateRaised == run.update \in {"done", "failed"} /\ run.outcome = "Exception"

(***************************************************************************)
(* C13: an exception raised by the detached memory update is caught and    *)
(* logged in the update's own task: that task ends without an unhandled    *)
(* exception, the run that spawned it raises nothing because of it, and    *)
(* the run returns the response the model produced.                        *)
(***************************************************************************)
C13_UpdateFailureContained ==
    /\ run.unhandled = "none"
    /\ run.update # "failed"
    /\ UpdateRaised => run.logged /\ run.update = "done" /\ run.exc = "none"
    /\ (run.update # "none" /\ run.pc = "returned") => run.ret = run.response

\* the update raised, and the run returned the model's response
C13_Witness ==
    /\ UpdateRaised
    /\ run.pc = "returned"
    /\ run.ret \in Responses

\* the steps of _arun after the detach
ResponsePath == SetSessionMetrics \/ WriteToStorage \/ LogAgentRun \/ ReturnResponse

(***************************************************************************)
(* C14: after spawning the memory update the run never waits for it: at    *)
(* every point of the response path (session metrics, storage write, log,  *)
(* conversion and return) the next step can be taken whatever the state of *)
(* the update, so the run can return while the update is still pending.    *)
(***************************************************************************)
C14_ResponsePathNeverWaits ==
    run.pc \in {"metrics", "storage", "log", "convert"} => ENABLED ResponsePath

\* the run has returned its response and the update has not started
C14_Witness ==
    /\ run.pc = "returned"
    /\ run.ret = run.response
    /\ run.update = "pending"

(***************************************************************************)
(* C15: in the SSE streaming loop no event, stream or artifact, is yielded *)
(* once the client is disconnected, and a generator that stops because of  *)
(* the disconnection ends normally, with no exception.                     *)
(***************************************************************************)
C15_NoEventAfterDisconnect ==
    stream.handler \in SSEHandlers =>
        /\ ~stream.late
        /\ stream.broke => stream.pc = "ended" /\ stream.exc = "none"

\* the chunks yielded end with one error chunk and the [DONE] marker
EndsWithOneError(out) ==
    /\ Cardinality({i \in DOMAIN out : out[i] = "error"}) = 1
    /\ Len(out) >= 2
    /\ out[Len(out) - 1] = "error"
    /\ out[Len(out)] = "[DONE]"

(***************************************************************************)
(* C18: in every streaming handler an error raised after streaming has     *)
(* begun never escapes the generator: it becomes exactly one final error   *)
(* chunk and the stream ends normally.                                     *)
(***************************************************************************)
C18_LateErrorBecomesOneChunk ==
    stream.failed =>
        /\ stream.exc = "none"
        /\ stream.pc = "ended"
        /\ EndsWithOneError(stream.out)

\* the request has been answered, or its response has broken off
Answered == web.pc \in {"responded", "aborted"}

(***************************************************************************)
(* C16: a request to a chat-completion or memory endpoint that carries no  *)
(* API key and no bearer token causes no agent, workflow or memory         *)
(* operation, and is answered 401.                                         *)
(***************************************************************************)
C16_UnauthenticatedRejected ==
    (web.endpoint \in Endpoints /\ web.credentials = "none") =>
        /\ web.ops = {}
        /\ Answered => web.status = 401

\* a chat request for a registered name that has no user message, or an
\* SSE dispatch with a kind other than agent and workflow
BadChatRequest ==
    /\ web.endpoint \in ChatEndpoints
    /\ \/ web.registered /\ ~web.user_message
       \/ web.endpoint = "sse_chat_completions" /\ web.type \notin {"agent", "workflow"}

(***************************************************************************)
(* C19: on the JSON endpoints and on the SSE endpoint, a chat request      *)
(* without a non-empty user message, and a dispatch with an invalid kind,  *)
(* never run the agent or workflow and are answered with a 4xx status.     *)
(***************************************************************************)
C19_BadRequestIs4xx ==
    BadChatRequest =>
        /\ "run" \notin web.ops
        /\ Answered => (web.status >= 400 /\ web.status < 500)

\* the result a wrapper must give for what the upstream did
StructuredResult(c) ==
    LET u == c.upstream
        r == c.result
    IN /\ (u.kind = "raise" /\ u.exc \in RequestErrors) =>
              /\ r.raised = "none"
              /\ r.keys = {"status", "error"}
              /\ r.status_is_none
       /\ (u.kind = "response" /\ (u.code < 200 \/ u.code > 299)) =>
              /\ r.raised = "none"
              /\ r.keys = {"status", "error"}
              /\ ~r.status_is_none /\ r.status = u.code
       /\ (u.kind = "response" /\ u.code >= 200 /\ u.code <= 299) =>
              /\ r.raised = "none"
              /\ r.keys = {"status", "data"}
              /\ ~r.status_is_none /\ r.status = u.code

(***************************************************************************)
(* C17: _request of either wrapper raises neither for a transport error    *)
(* nor for a non-2xx response: it returns status None and an error for the *)
(* first, the response's status code and an error for the second, and the  *)
(* status code and the data, with no error field, for a 2xx response; and  *)
(* the two wrappers give the same result for the same upstream outcome.    *)
(***************************************************************************)
C17_ClientReturnsStructuredResult ==
    /\ \A w \in Wrappers : calls[w].made => StructuredResult(calls[w])
    /\ (/\ calls["AsyncHttpClient"].made
        /\ calls["SyncHttpClient"].made
        /\ calls["AsyncHttpClient"].upstream = calls["SyncHttpClient"].upstream) =>
           calls["AsyncHttpClient"].result = calls["SyncHttpClient"].result

\* both wrappers met the same 404 response and returned it as an error
C17_Witness ==
    /\ calls["AsyncHttpClient"].made
    /\ calls["SyncHttpClient"].made
    /\ calls["SyncHttpClient"].upstream.kind = "response"
    /\ calls["SyncHttpClient"].upstream.code = 404
    /\ calls["AsyncHttpClient"].upstream = calls["SyncHttpClient"].upstream
    /\ calls["SyncHttpClient"].result.keys = {"status", "error"}

\* the table gained one record, named as in the call, after those it held
AppendedOne(before, after) ==
    /\ Len(after) = Len(before) + 1
    /\ SubSeq(after, 1, Len(before)) = before
    /\ after[Len(after)].name = last'.name

\* the effect of the call just made on the four tables
TablesFrame ==
    CASE last'.op = "register_vectordb" ->
             /\ AppendedOne(vectordbs, vectordbs')
             /\ UNCHANGED <<agent_factories, workflow_factories, tasks>>
      [] last'.op = "register_agent_factory" ->
             /\ AppendedOne(agent_factories, agent_factories')
             /\ UNCHANGED <<workflow_factories, vectordbs, tasks>>
      [] last'.op = "register_workflow_factory" ->
             /\ AppendedOne(workflow_factories, workflow_factories')
             /\ UNCHANGED <<agent_factories, vectordbs, tasks>>
      [] last'.op = "register_task" ->
             /\ AppendedOne(tasks, tasks')
             /\ UNCHANGED <<agent_factories, workflow_factories, vectordbs>>
      [] OTHER -> UNCHANGED tables

(***************************************************************************)
(* C20: every register call appends exactly one record to the table of its *)
(* own domain and leaves the three other tables and every record already   *)
(* held, in content and order, as they were; every has, resolve, provider  *)
(* call and task run leaves the four tables unchanged.                     *)
(***************************************************************************)
C20_TablesAppendOnly == [][TablesFrame]_vars

\* a task was registered after the built-in one, and then a task was run
C20_Witness ==
    /\ last.op = "async_run_task"
    /\ last.invoked
    /\ Len(tasks) = 2
    /\ tasks[1].name = BuiltinTask
    /\ tasks[2].name = last.name

\* an exception left the route function before the response had begun
EscapedRoute == web.exc # "none" /\ ~web.started /\ Answered

\* the caller was sent status 500 and a body carrying the error message
Is500WithMessage ==
    /\ web.pc = "responded"
    /\ web.status = 500
    /\ web.body = [kind |-> "error", message |-> web.exc]

(***************************************************************************)
(* C21 as stated: any exception that escapes a route handler becomes a 500 *)
(* response carrying the error message, and the agent or workflow is not   *)
(* run for that request.                                                   *)
(***************************************************************************)
C21_AnyEscapedExceptionIs500 ==
    EscapedRoute => (Is500WithMessage /\ "run" \notin web.ops)

(***************************************************************************)
(* C21: an exception other than an HTTPException that escapes a route      *)
(* handler, including the registry's not-found error for an unknown model  *)
(* name, is converted by the global handler into a 500 response carrying   *)
(* the error message; after a not-found error the agent or workflow is not *)
(* run for that request; the request can be closed and the application     *)
(* then accepts the next one.                                              *)
(***************************************************************************)
C21_UncaughtErrorIs500 ==
    /\ (EscapedRoute /\ web.exc # "HTTPException") =>
           /\ Is500WithMessage
           /\ web.exc = "ValueError" => "run" \notin web.ops
           /\ ENABLED CloseRequest
    /\ web.pc = "idle" => ENABLED (\E req \in HttpRequests : Receive(req))

C21_Witness ==
    /\ web.endpoint = "chat_completions"
    /\ web.exc = "ValueError"
    /\ web.status = 500

\* the route function of a DELETE for a memory id that is not stored is
\* about to run
DeleteOfMissingId ==
    /\ web.pc = "handler"
    /\ web.endpoint = "delete_memory"
    /\ web.memory_id \notin memories

HandleNeverSet == handle.op # "none" /\ handle.before = "None"

(***************************************************************************)
(* C23: reading an unset current-workflow slot returns the default None;   *)
(* an agent with a workflow_id that reads custom_session_state when the    *)
(* handle was never set in the current request fails with an assertion     *)
(* error; the orchestrator's current_workflow setter rejects None with an  *)
(* assertion error and leaves the slot unchanged.                          *)
(***************************************************************************)
C23_UnsetHandleFailsWithAssertion ==
    /\ (handle.op = "current_workflow" /\ HandleNeverSet) => handle.value = "None"
    /\ (handle.op = "custom_session_state" /\ handle.agent # "none" /\ HandleNeverSet) =>
           handle.exc = "AssertionError"
    /\ (handle.op = "current_workflow.setter" /\ handle.arg = "None") =>
           (handle.exc = "AssertionError" /\ handle.after = handle.before)

\* the request asks for a workflow
WorkflowRequest ==
    \/ web.endpoint = "workflow_chat_completions"
    \/ web.endpoint = "sse_chat_completions" /\ web.type = "workflow"

(***************************************************************************)
(* C24: on every chat route, once the handler's run has started, the       *)
(* Context Store of the request holds the request's session id and, for a  *)
(* workflow, the resolved workflow handle, so a read of either slot during *)
(* the run returns that request's value.                                   *)
(***************************************************************************)
C24_RouteStoresIdentifiers ==
    (web.endpoint \in ChatEndpoints /\ "run" \in web.ops) =>
        /\ get_current_session_id([t \in {"route"} |-> web.context], "route") # session_id_var
        /\ WorkflowRequest =>
               get_current_workflow([t \in {"route"} |-> web.context], "route") = "handler"

\* the wrapper a reranker client extends
WrapperOf(c) == IF c = "AsyncRerankerClient" THEN "AsyncHttpClient" ELSE "SyncHttpClient"

\* the latest rerank of client c got a result dict from its wrapper
GotResult(c) == reranked[c].made /\ calls[WrapperOf(c)].result.raised = "none"

\* the status of that result is 200
Status200(c) ==
    LET r == calls[WrapperOf(c)].result IN ~r.status_is_none /\ r.status = 200

(***************************************************************************)
(* C25: for the same upstream outcome RerankerClient.rerank and            *)
(* AsyncRerankerClient.rerank behave alike: when the wrapper result has    *)
(* status 200 both return the upstream results list, and when the status   *)
(* is not 200 (a transport error with status None included) both raise     *)
(* RerankerError and nothing else.                                         *)
(***************************************************************************)
C25_RerankersBehaveAlike ==
    /\ \A c \in Rerankers :
           GotResult(c) =>
               IF Status200(c)
               THEN reranked[c].exc = "none" /\ reranked[c].ret = "results"
               ELSE reranked[c].exc = "RerankerError"
    /\ (/\ \A c \in Rerankers : GotResult(c)
        /\ reranked["AsyncRerankerClient"].upstream = reranked["RerankerClient"].upstream) =>
           /\ reranked["AsyncRerankerClient"].ret = reranked["RerankerClient"].ret
           /\ reranked["AsyncRerankerClient"].exc = reranked["RerankerClient"].exc

\* the SSE events the n-th source event e must give, per handler
EventsFor(h, n, e) ==
    IF h = "sse_agent" THEN <<stream_event(n, e)>>
    ELSE IF e.kind # "content" THEN <<>>
    ELSE IF e.has_artifacts THEN [i \in 1..e.artifacts |-> artifact_event(n, i)]
    ELSE <<stream_event(n, e)>>

RECURSIVE EventsUpTo(_, _, _)
EventsUpTo(h, src, n) ==
    IF n = 0 THEN <<>> ELSE EventsUpTo(h, src, n - 1) \o EventsFor(h, n, src[n])

IsPrefix(p, q) == Len(p) <= Len(q) /\ SubSeq(q, 1, Len(p)) = p

\* an SSE stream whose loop has not been left by the disconnect check
ServedSSE == stream.handler \in SSEHandlers /\ ~stream.broke

(***************************************************************************)
(* C26: the SSE adapter emits only events of type stream or artifact: for  *)
(* an agent one stream event per chunk, in chunk order; for a workflow     *)
(* each content event with artifacts gives one artifact event per          *)
(* artifact, in order, and no stream event, each content event without     *)
(* artifacts gives exactly one stream event with its content as delta, and *)
(* every other event gives nothing.                                        *)
(***************************************************************************)
C26_SSEEventsFollowSource ==
    ServedSSE =>
        LET want == EventsUpTo(stream.handler, stream.source, Len(stream.source)) IN
        /\ \A i \in DOMAIN stream.sent : stream.sent[i].event \in {"stream", "artifact"}
        /\ IsPrefix(stream.sent, want)
        /\ Len(want) - Len(stream.sent) = stream.pending
        /\ stream.pc # "artifacts" => stream.sent = want

C26_Witness ==
    /\ stream.handler = "sse_workflow"
    /\ stream.pc = "ended"
    /\ ~stream.broke
    /\ Len(stream.source) = 2
    /\ stream.source[1].kind = "content" /\ stream.source[1].artifacts = 2
    /\ stream.source[2].kind = "content" /\ ~stream.source[2].has_artifacts
    /\ Len(stream.sent) = 3

\* the content chunks the first n source events must give, per handler
RECURSIVE ContentsUpTo(_, _, _)
ContentsUpTo(h, src, n) ==
    IF n = 0 THEN <<>>
    ELSE LET e == src[n]
             counts == e.nonempty /\ (h = "stream_workflow_response" => e.kind = "content")
         IN ContentsUpTo(h, src, n - 1) \o (IF counts THEN <<content_chunk(n)>> ELSE <<>>)

ChunksOf(out, kind) == {i \in DOMAIN out : out[i] = kind}

\* the chunk kinds of a stream before its end: the role chunk, then k
\* content chunks
RoleThenContents(k) == <<"role">> \o [i \in 1..k |-> "content"]

(***************************************************************************)
(* C27: every OpenAI-style stream emits its chunks in a fixed order and is *)
(* terminated exactly once: normally a role chunk, one content chunk per   *)
(* non-empty delta in order, one stop chunk, one [DONE]; on an error a     *)
(* single error chunk followed by a single [DONE].  No chunk follows       *)
(* [DONE], [DONE] is never emitted twice, and the exception never leaves   *)
(* the generator.                                                          *)
(***************************************************************************)
C27_OpenAIStreamOrderedAndTerminatedOnce ==
    stream.handler \in OpenAIHandlers =>
        LET out == stream.out
            n == Len(out)
            k == Len(stream.sent)
        IN /\ stream.pc # "raised"
           /\ stream.sent = ContentsUpTo(stream.handler, stream.source, Len(stream.source))
           /\ Cardinality(ChunksOf(out, "[DONE]")) <= 1
           /\ ChunksOf(out, "[DONE]") # {} <=> stream.pc = "ended"
           /\ stream.pc = "ended" => out[n] = "[DONE]"
           /\ stream.pc = "loop" => out = RoleThenContents(k)
           /\ (stream.pc = "ended" /\ ChunksOf(out, "error") = {}) =>
                  out = RoleThenContents(k) \o <<"stop", "[DONE]">>
           /\ ChunksOf(out, "error") # {} =>
                  /\ ChunksOf(out, "error") = {n - 1}
                  /\ ChunksOf(out, "stop") = {}
                  /\ SubSeq(out, 1, n - 2) \in {<<>>, RoleThenContents(k)}

C27_Witness ==
    /\ stream.handler = "stream_workflow_response"
    /\ stream.pc = "ended"
    /\ Len(stream.source) = 2
    /\ stream.source[1].kind = "other" /\ stream.source[1].nonempty
    /\ stream.source[2].kind = "content" /\ stream.source[2].nonempty
    /\ stream.out = <<"role", "content", "stop", "[DONE]">>

\* step a comes before step b among the steps taken
Before(steps, a, b) ==
    \A j \in DOMAIN steps : steps[j] = b => \E i \in 1..(j - 1) : steps[i] = a

\* the run is added to memory before the update is spawned; a paused run
\* spawns no update and computes no session metrics
AddedBeforeSpawnAndPausedSkips ==
    /\ Before(run.steps, "_add_run_to_memory", "create_task")
    /\ run.paused =>
           /\ run.update = "none"
           /\ run.steps = <<"_add_run_to_memory">>
           /\ run.pc \in {"paused", "returned"}
           /\ run.pc = "returned" => run.ret = run.response

Loaded == {plugins.list[i] : i \in DOMAIN plugins.list}

\* register_plugin was called once on every loaded plugin and on no other
InvokedOnceOnLoaded(m) ==
    \A p \in PluginNames : invoked[m][p].calls = IF p \in Loaded THEN 1 ELSE 0

\* what the loaded plugins whose registration went through have registered
\* is in the tables of M1, in entry point order, whatever the others did
HoldsRegistrationsOf(table, name) ==
    LET how == [p \in PluginNames |-> invoked["M1"][p].outcome]
        want == RegisteredBy(name, plugins.list, how, Len(plugins.list))
    IN Len(table) >= Len(want)
       /\ SubSeq(table, Len(table) - Len(want) + 1, Len(table)) = want

PluginsEnabledOnce ==
    /\ \A p \in PluginNames : plugins.loads[p] <= 1
    /\ \A m \in Instances :
           IF plugins_enabled[m] THEN plugins.loaded /\ InvokedOnceOnLoaded(m)
           ELSE \A p \in PluginNames : invoked[m][p].calls = 0
    /\ plugins_enabled["M1"] =>
           /\ HoldsRegistrationsOf(agent_factories, "agent_factories")
           /\ HoldsRegistrationsOf(workflow_factories, "workflow_factories")
           /\ HoldsRegistrationsOf(vectordbs, "vectordbs")
           /\ HoldsRegistrationsOf(tasks, "tasks")

\* a call of enable_plugins on an orchestrator whose plugins are enabled
LaterEnable ==
    \E m \in Instances, ok \in LoadOutcomes, how \in RegisterOutcomes :
        plugins_enabled[m] /\ EnablePlugins(m, ok, how)

(***************************************************************************)
(* C29: plugin enabling is at-most-once and failure-isolated: the first    *)
(* enable_plugins call on an orchestrator invokes register_plugin once on  *)
(* every loaded plugin, a plugin whose load or registration raises is      *)
(* skipped without preventing the others, every later call registers       *)
(* nothing and leaves the four registry tables unchanged, and within a     *)
(* process the entry points are loaded at most once.                       *)
(***************************************************************************)
C29_PluginsEnabledAtMostOnce ==
    /\ []PluginsEnabledOnce
    /\ [][LaterEnable =>
             /\ tables' = tables
             /\ invoked' = invoked
             /\ plugins' = plugins
             /\ last'.warned]_vars

\* p1 was loaded and its registration raised, p2 registered on M1; M2 was
\* enabled afterwards from the same loaded list
C29_Witness ==
    /\ plugins_enabled["M1"] /\ plugins_enabled["M2"]
    /\ plugins.list = EntryPoints
    /\ invoked["M1"]["p1"].outcome = "raises"
    /\ invoked["M1"]["p2"].outcome = "ok"
    /\ Len(tasks) >= 1 /\ tasks[Len(tasks)] = TaskRegistration("b", "h1")
    /\ agent_factories = <<>>
    /\ last.op = "enable_plugins" /\ last.warned

\* a request served by the app of an orchestrator was resolved against
\* that orchestrator
ResolvedAgainstOwner == served.op = "request" => served.resolved = served.instance

\* a read of .app returns the object the orchestrator already holds
SameAppObject == \A m \in Instances : apps[m] # 0 => apps'[m] = apps[m]

(***************************************************************************)
(* C30: a request served by the app of orchestrator M is always resolved   *)
(* against M's own registry and memory, also when a second instance in the *)
(* same process has created its app before or after M did; repeated reads  *)
(* of M.app return the same app object.                                    *)
(***************************************************************************)
C30_AppResolvesAgainstOwnInstance ==
    /\ []ResolvedAgainstOwner
    /\ [][SameAppObject]_vars

====
